---- MODULE Spec2Model ----
(***************************************************************************)
(* Model of the download engine of civitai-dl                              *)
(* (src/civitai_dl/core/downloader.py): DownloadTask (the per-transfer     *)
(* state machine) and DownloadEngine (registry, thread pool, cancel, wait, *)
(* shutdown).                                                              *)
(*                                                                         *)
(* Sizes are counted in chunks.  Every task has its own directory with the *)
(* file names OrigName (the path given at construction), HeaderName (the   *)
(* name a Content-Disposition header supplies) and RedirectName (the name  *)
(* a GET response supplies when a redirect changed the header).            *)
(* The server of a task holds a file of remote[t] chunks; it may fail any  *)
(* request, omit Content-Length, honour or ignore a Range header, and      *)
(* answer 416.                                                             *)
(***************************************************************************)
EXTENDS Integers, Sequences, FiniteSets, TLC

\* ---------------------------------------------------------------- bounds
MaxTasks == 2                 \* number of download() calls made on the engine
concurrent_downloads == 1     \* the engine's concurrency limit (pool size)
MaxRemote == 2                \* largest remote file, in chunks
MaxGlobals == 1               \* engine-global callbacks registered, per kind
MaxClock == 1                 \* largest value of int(time.time()) at a download() call
MaxSuffix == 1                \* values of the random suffix os.urandom(2).hex()
MaxStarters == 2              \* threads that call start() on a task themselves
MaxUrls == 3                  \* longest URL list given to download_batch()
MaxBytes == 5                 \* largest size given to the eta and progress properties
MaxSpeed == 3                 \* largest speed given to the eta property
MaxPathLen == 2               \* longest URL path given to get_filename_from_url
MaxPairs == 2                 \* most key=value pairs in the query of such a URL
MaxApiThreads == 3            \* threads calling the API client
MaxBackoff == 2               \* 429 answers the server gives before it answers otherwise

\* ------------------------------------------------------------- constants
None == -1                    \* Python's None for total_size
Absent == -2                  \* os.path.exists() is False

Tasks == 1..MaxTasks
Starters == 1..MaxStarters
OrigName == 0
HeaderName == 1
RedirectName == 2
Names == {OrigName, HeaderName, RedirectName}
\* the names the Content-Disposition header of a GET response can carry
GetNames == {HeaderName, RedirectName}
RemoteSizes == 0..MaxRemote
LocalSizes == {Absent} \cup (0..(MaxRemote + 1))
Terminal == {"completed", "failed", "canceled"}
\* positions of a task: before/inside start() on a pool worker, then the
\* positions of its own thread inside _download()
InStart == {"checked", "set"}
InDownload == {"head", "decide", "get", "stream"}
Exited == {"returned", "closed"}

VARIABLES
    tasks,            \* the tasks created by download(), numbered in the order of creation
    task_id,          \* DownloadTask.task_id
    registry,         \* DownloadEngine._tasks: the dictionary from task ID to task
    queue,            \* the executor's work queue of task.start calls
    shutdown,         \* the executor has been shut down
    globals,          \* lengths of the engine's _progress_callbacks and _completion_callbacks
    user_cb,          \* which callbacks the caller gave to download() for the task
    hooked,           \* the combined completion callback is in the task's list
    pc,               \* position of each task's start()/_download()
    status,           \* DownloadTask.status
    error,            \* DownloadTask.error (NoError for None)
    stop_event,       \* DownloadTask._stop_event
    cancelpc,         \* position of a cancel() call on the task
    total_size,       \* DownloadTask.total_size (None when unknown)
    downloaded_size,  \* DownloadTask.downloaded_size
    file_path,        \* DownloadTask.file_path (a name in the task's directory)
    disk,             \* disk[t][n]: size of file n of task t, or Absent
    use_range,        \* DownloadTask.use_range
    retry_count,      \* DownloadTask._retry_count
    mode,             \* local `mode` of _download: "wb" or "ab"
    body,             \* chunks the response iterator still holds
    cbCount,          \* times _trigger_completion_callbacks() ran for the task
    cbLog,            \* the callbacks invoked by the task's latest event, in order
    gets,             \* GET requests issued for the task
    remote,           \* size of the file the task's server holds
    cd,               \* the server sends a Content-Disposition file name
    lastWait,         \* the last wait() call that returned: <<task, result>>
    wa,               \* the wait_all() call in progress, or WaitAllIdle
    startpc,          \* startpc[t][c]: position of thread c in its own start() call on t
    batch,            \* the download_batch() call in progress, or BatchIdle
    ca,               \* the cancel_all() call in progress, or CancelAllIdle
    probe,            \* a call of a property or pure helper: its inputs and its result
    api               \* the CivitaiAPI client: its request lock, its interval, its callers

vars == <<tasks, task_id, registry, queue, shutdown, globals, user_cb, hooked, pc, status, error, stop_event, cancelpc, total_size,
          downloaded_size, file_path, disk, use_range, retry_count, mode, body,
          cbCount, cbLog, gets, remote, cd, lastWait, wa, startpc, batch, ca, probe, api>>

taskVars == <<status, error, stop_event, total_size, downloaded_size, file_path, disk,
              use_range, retry_count, mode, body, cbCount, cbLog, gets>>
envVars == <<remote, cd>>
engineVars == <<tasks, task_id, registry, queue, shutdown, globals, user_cb, hooked>>
callerVars == <<cancelpc, lastWait, wa, startpc, batch, ca, probe, api>>

\* values of int(time.time()) and of the random suffix
Clock == 0..MaxClock
Suffixes == 1..MaxSuffix

\* a task ID without the random suffix
NoSuffix == 0

\* task_id of a task that has none yet
NoId == <<>>

\* the callbacks a caller can give to download()
UserCallbacks ==
    [progress : BOOLEAN, completion : BOOLEAN]

\* download() called with neither callback
NoCallbacks ==
    [progress |-> FALSE, completion |-> FALSE]

\* in a callback log, the caller's own callback; the engine-global callbacks
\* are 1, 2, ... in the order of their registration
UserCallback == 0

\* DownloadTask.error before any failure
NoError ==
    "None"

\* str(e) of the exceptions the worker can meet, by where they are raised
Errors ==
    {"makedirs", "request", "416", "remove", "stream"}

\* no wait_all() call is in progress
WaitAllIdle ==
    [next |-> 0, n |-> 0, timed |-> FALSE, all_completed |-> TRUE, expired |-> FALSE]

\* no download_batch() call is in progress
BatchIdle ==
    [phase |-> "idle", n |-> 0, built |-> 0, made |-> <<>>, result |-> <<>>]

\* no cancel_all() call is in progress
CancelAllIdle ==
    [next |-> 0, active |-> <<>>]

NoThread == 0                 \* request_lock is not held
TooManyRequests == 429

ApiThreads == 1..MaxApiThreads

\* the status codes the API server answers with
StatusCodes == {200, 404, TooManyRequests}

\* CivitaiAPI.__init__: the lock is free, min_request_interval is 1.0 and
\* no thread is inside _rate_limited_request.  frames[th] counts the nested
\* calls of _rate_limited_request on the stack of thread th.
ApiIdle ==
    [lock |-> NoThread,
     min_request_interval |-> 1,
     apc |-> [th \in ApiThreads |-> "idle"],
     frames |-> [th \in ApiThreads |-> 0],
     response |-> [th \in ApiThreads |-> None]]

\* no property or helper is being called
ProbeIdle ==
    [kind |-> "none"]

\* DownloadTask.__init__ and DownloadEngine.__init__
InitState ==
    /\ tasks = {}
    /\ task_id = [t \in Tasks |-> NoId]
    /\ registry = <<>>
    /\ queue = <<>>
    /\ shutdown = FALSE
    /\ globals = [progress |-> 0, completion |-> 0]
    /\ user_cb = [t \in Tasks |-> NoCallbacks]
    /\ hooked = [t \in Tasks |-> FALSE]
    /\ pc = [t \in Tasks |-> "new"]
    /\ status = [t \in Tasks |-> "pending"]
    /\ error = [t \in Tasks |-> NoError]
    /\ stop_event = [t \in Tasks |-> FALSE]
    /\ cancelpc = [t \in Tasks |-> "idle"]
    /\ total_size = [t \in Tasks |-> None]
    /\ downloaded_size = [t \in Tasks |-> 0]
    /\ file_path = [t \in Tasks |-> OrigName]
    /\ disk = [t \in Tasks |-> [n \in Names |-> Absent]]
    /\ use_range = [t \in Tasks |-> TRUE]
    /\ retry_count = [t \in Tasks |-> 0]
    /\ mode = [t \in Tasks |-> "wb"]
    /\ body = [t \in Tasks |-> 0]
    /\ cbCount = [t \in Tasks |-> 0]
    /\ cbLog = [t \in Tasks |-> <<>>]
    /\ gets = [t \in Tasks |-> 0]
    /\ remote = [t \in Tasks |-> 0]
    /\ cd = [t \in Tasks |-> FALSE]
    /\ lastWait = <<>>
    /\ wa = WaitAllIdle
    /\ startpc = [t \in Tasks |-> [c \in Starters |-> "idle"]]
    /\ batch = BatchIdle
    /\ ca = CancelAllIdle

\* the engine and its tasks after construction, no caller at work
Init ==
    /\ InitState
    /\ probe = ProbeIdle
    /\ api = ApiIdle

\* ------------------------------------------------------------ the engine

\* The worlds a task can be created in: the server's file and header, and
\* what the task's directory holds.  Without a Content-Disposition name the
\* file HeaderName is never looked at and is left Absent.
Worlds ==
    { w \in [remote : RemoteSizes, cd : BOOLEAN, orig : LocalSizes, hdr : LocalSizes] :
        ~w.cd => w.hdr = Absent }

\* The world of the tasks of the engine-level specification: a one-chunk
\* remote file, nothing on disk.
EngineWorlds ==
    { w \in Worlds : w.remote = 1 /\ ~w.cd /\ w.orig = Absent }

\* NewTaskId made of the time stamp alone and not tested against the registry
NewTaskIdOfTime(reg, now, rand) ==
    <<0, now, NoSuffix>>

\* lines 713-716: task_{len+1}_{time}, and with a random suffix when that ID
\* is in the registry already
NewTaskId(reg, now, rand) ==
    LET first == <<Cardinality(DOMAIN reg) + 1, now, NoSuffix>>
    IN  IF first \in DOMAIN reg
          THEN <<Cardinality(DOMAIN reg) + 1, now, rand>>
          ELSE first

\* line 717: self._tasks[task.task_id] = task
Registered(reg, id, t) ==
    [x \in DOMAIN reg \cup {id} |-> IF x = id THEN t ELSE reg[x]]

\* DownloadEngine.get_task, lines 840-843: dict.get
get_task(id) ==
    IF id \in DOMAIN registry THEN registry[id] ELSE None

\* lines 712-717, under the engine's lock: the ID is made at time now, the
\* loop ends with an ID that passed its test, the task is registered
AssignId(t, now) ==
    \E rand \in Suffixes :
        LET id == NewTaskId(registry, now, rand)
        IN  /\ (id[3] # NoSuffix => id \notin DOMAIN registry)
            /\ task_id' = [task_id EXCEPT ![t] = id]
            /\ registry' = Registered(registry, id, t)

\* DownloadEngine.download: build the task, register it under the lock,
\* attach the combined completion callback, submit task.start to the pool.
\* After shutdown() the executor's submit raises, with the task registered.
Download(t, range, w, ucb, now) ==
    /\ t = Cardinality(tasks) + 1
    /\ t \in Tasks
    /\ tasks' = tasks \cup {t}
    /\ AssignId(t, now)
    /\ use_range' = [use_range EXCEPT ![t] = range]
    /\ remote' = [remote EXCEPT ![t] = w.remote]
    /\ cd' = [cd EXCEPT ![t] = w.cd]
    /\ disk' = [disk EXCEPT ![t] = [n \in Names |->
                    IF n = OrigName THEN w.orig ELSE IF n = HeaderName THEN w.hdr ELSE Absent]]
    /\ IF shutdown
         THEN /\ pc' = [pc EXCEPT ![t] = "unsubmitted"]
              /\ UNCHANGED queue
         ELSE /\ pc' = [pc EXCEPT ![t] = "queued"]
              /\ queue' = Append(queue, t)
    /\ user_cb' = [user_cb EXCEPT ![t] = ucb]
    /\ hooked' = [hooked EXCEPT ![t] = TRUE]
    /\ UNCHANGED <<shutdown, globals, status, stop_event, total_size, downloaded_size,
                   file_path, retry_count, mode, body, cbCount, cbLog, gets>>
    /\ UNCHANGED callerVars
    /\ UNCHANGED error

\* DownloadEngine.download up to line 717: the task is built and put in the
\* registry under the lock; other threads can reach it from here on
DownloadRegister(t, range, w, ucb, now) ==
    /\ t = Cardinality(tasks) + 1
    /\ t \in Tasks
    /\ tasks' = tasks \cup {t}
    /\ AssignId(t, now)
    /\ use_range' = [use_range EXCEPT ![t] = range]
    /\ remote' = [remote EXCEPT ![t] = w.remote]
    /\ cd' = [cd EXCEPT ![t] = w.cd]
    /\ disk' = [disk EXCEPT ![t] = [n \in Names |->
                    IF n = OrigName THEN w.orig ELSE IF n = HeaderName THEN w.hdr ELSE Absent]]
    /\ user_cb' = [user_cb EXCEPT ![t] = ucb]
    /\ pc' = [pc EXCEPT ![t] = "registered"]
    /\ UNCHANGED <<queue, shutdown, globals, hooked, status, stop_event, total_size,
                   downloaded_size, file_path, retry_count, mode, body, cbCount, cbLog,
                   gets>>
    /\ UNCHANGED error
    /\ UNCHANGED callerVars

\* DownloadEngine.download, lines 719-758: the combined completion callback
\* is added to the task's list and task.start is submitted to the pool
DownloadHook(t) ==
    /\ pc[t] = "registered"
    /\ hooked' = [hooked EXCEPT ![t] = TRUE]
    /\ IF shutdown
         THEN /\ pc' = [pc EXCEPT ![t] = "unsubmitted"]
              /\ UNCHANGED queue
         ELSE /\ pc' = [pc EXCEPT ![t] = "queued"]
              /\ queue' = Append(queue, t)
    /\ UNCHANGED <<tasks, task_id, registry, shutdown, globals, user_cb>>
    /\ UNCHANGED taskVars
    /\ UNCHANGED envVars
    /\ UNCHANGED callerVars

\* DownloadEngine.register_completion_callback
RegisterCompletionCallback ==
    /\ globals.completion < MaxGlobals
    /\ globals' = [globals EXCEPT !.completion = @ + 1]
    /\ UNCHANGED <<tasks, task_id, registry, queue, shutdown, user_cb, hooked>>
    /\ UNCHANGED pc
    /\ UNCHANGED taskVars
    /\ UNCHANGED envVars
    /\ UNCHANGED callerVars

\* DownloadEngine.register_progress_callback
RegisterProgressCallback ==
    /\ globals.progress < MaxGlobals
    /\ globals' = [globals EXCEPT !.progress = @ + 1]
    /\ UNCHANGED <<tasks, task_id, registry, queue, shutdown, user_cb, hooked>>
    /\ UNCHANGED pc
    /\ UNCHANGED taskVars
    /\ UNCHANGED envVars
    /\ UNCHANGED callerVars

\* pool workers that are inside a start() call
BusyWorkers == Cardinality({t \in Tasks : pc[t] \in InStart})

\* DownloadTask.start, line 164: a free pool worker takes the next work item
\* and reads the status.
StartCheck(t) ==
    /\ queue # <<>>
    /\ t = Head(queue)
    /\ BusyWorkers < concurrent_downloads
    /\ queue' = Tail(queue)
    /\ pc' = [pc EXCEPT ![t] = IF status[t] # "pending" THEN "dropped" ELSE "checked"]
    /\ UNCHANGED <<tasks, task_id, registry, shutdown, globals, user_cb, hooked>>
    /\ UNCHANGED taskVars
    /\ UNCHANGED envVars
    /\ UNCHANGED callerVars

\* DownloadTask.start, lines 167-169: the status becomes running.
StartSet(t) ==
    /\ pc[t] = "checked"
    /\ status' = [status EXCEPT ![t] = "running"]
    /\ pc' = [pc EXCEPT ![t] = "set"]
    /\ UNCHANGED <<stop_event, total_size, downloaded_size, file_path, disk,
                   use_range, retry_count, mode, body, cbCount, cbLog, gets>>
    /\ UNCHANGED engineVars
    /\ UNCHANGED envVars
    /\ UNCHANGED callerVars
    /\ UNCHANGED error

\* DownloadTask.start, lines 170-172: the task's own thread is created and
\* started, start() returns and the pool worker is free again.
StartLaunch(t) ==
    /\ pc[t] = "set"
    /\ pc' = [pc EXCEPT ![t] = "head"]
    /\ UNCHANGED taskVars
    /\ UNCHANGED engineVars
    /\ UNCHANGED envVars
    /\ UNCHANGED callerVars

\* ------------------------------------------------- the task's own thread

\* combined_progress_callback / combined_completion_callback with
\* _handle_task_progress / _handle_task_completion (lines 724-746, 611-635):
\* the caller's callback if there is one, then every global callback
Callers(user, n) ==
    (IF user THEN <<UserCallback>> ELSE <<>>) \o [i \in 1..n |-> i]

\* which of the callbacks c of one event raise an Exception, by position
RaisePatterns(c) ==
    [1..Len(c) -> BOOLEAN]

\* Invocations with the first raising callback ending the event
InvocationsUntilRaise(kind, c, raises) ==
    LET stop == IF \E i \in 1..Len(c) : raises[i]
                  THEN CHOOSE i \in 1..Len(c) : raises[i] /\ \A j \in 1..(i - 1) : ~raises[j]
                  ELSE Len(c)
    IN  [i \in 1..stop |-> <<kind, c[i], raises[i]>>]

\* the invocations of one event: each call sits in its own try/except
\* Exception, so a raising callback does not end the event
Invocations(kind, c, raises) ==
    [i \in 1..Len(c) |-> <<kind, c[i], raises[i]>>]

\* the callbacks of a progress event of task t: the combined progress
\* callback given to start() by download()
ProgressCallers(t) ==
    Callers(user_cb[t].progress, globals.progress)

\* the callbacks of a completion event of task t: those of the task's list,
\* which holds the combined completion callback once download() has added it
CompletionCallers(t) ==
    IF hooked[t] THEN Callers(user_cb[t].completion, globals.completion) ELSE <<>>

\* DownloadTask._trigger_completion_callbacks
TriggerCompletionCallbacks(t) ==
    /\ cbCount' = [cbCount EXCEPT ![t] = @ + 1]
    /\ \E raises \in RaisePatterns(CompletionCallers(t)) :
         cbLog' = [cbLog EXCEPT ![t] = Invocations("completion", CompletionCallers(t), raises)]

\* DownloadTask._download, lines 446-453: the handler of every exception
\* that leaves the try block; exitpc is where the thread was.
Raise(t, exitpc, e) ==
    /\ status' = [status EXCEPT ![t] = IF @ = "canceled" THEN @ ELSE "failed"]
    /\ error' = [error EXCEPT ![t] = IF status[t] = "canceled" THEN @ ELSE e]
    /\ cbCount' = [cbCount EXCEPT ![t] = IF status[t] = "canceled" THEN @ ELSE @ + 1]
    /\ \E raises \in RaisePatterns(CompletionCallers(t)) :
         cbLog' = [cbLog EXCEPT ![t] =
                     IF status[t] = "canceled"
                       THEN @
                       ELSE Invocations("completion", CompletionCallers(t), raises)]
    /\ pc' = [pc EXCEPT ![t] = exitpc]

\* lines 178-179: os.makedirs raises (a filesystem error)
MakedirsFails(t) ==
    /\ pc[t] = "head"
    /\ Raise(t, "returned", "makedirs")
    /\ UNCHANGED <<stop_event, total_size, downloaded_size, file_path, disk,
                   use_range, retry_count, mode, body, gets>>
    /\ UNCHANGED engineVars
    /\ UNCHANGED envVars
    /\ UNCHANGED callerVars

\* lines 213-214: a Content-Length of the HEAD response is taken only when
\* total_size is None or 0 (`not self.total_size`)
TotalAfterHead(total, hasLength, length) ==
    IF hasLength /\ (total = None \/ total = 0) THEN length ELSE total

\* lines 196-211: a Content-Disposition name of the HEAD response replaces
\* the file name, in the same directory
PathAfterHead(path, hasName) ==
    IF hasName THEN HeaderName ELSE path

\* HeadRequestWith with a failing HEAD request not caught: it reaches the
\* handler of the transfer routine like a failing GET
HeadRequestFatal(t, ok, hasLength) ==
    /\ pc[t] = "head"
    /\ ~ok => ~hasLength
    /\ IF ok
         THEN /\ file_path' = [file_path EXCEPT ![t] = PathAfterHead(@, cd[t])]
              /\ total_size' = [total_size EXCEPT ![t] =
                                    TotalAfterHead(@, hasLength, remote[t])]
              /\ pc' = [pc EXCEPT ![t] = "decide"]
              /\ UNCHANGED <<status, error, cbCount, cbLog>>
         ELSE /\ Raise(t, "returned", "request")
              /\ UNCHANGED <<file_path, total_size>>
    /\ UNCHANGED <<stop_event, downloaded_size, disk, use_range,
                   retry_count, mode, body, gets>>
    /\ UNCHANGED engineVars
    /\ UNCHANGED envVars
    /\ UNCHANGED callerVars

\* lines 184-219: the best-effort HEAD request.  A failing HEAD
\* (RequestException) is logged and ignored.
\* ok: the HEAD request returned a success status; hasLength: its response
\* carries a Content-Length.
HeadRequestWith(t, ok, hasLength) ==
    /\ pc[t] = "head"
    /\ ~ok => ~hasLength
    /\ file_path' = [file_path EXCEPT ![t] = PathAfterHead(@, ok /\ cd[t])]
    /\ total_size' = [total_size EXCEPT ![t] = TotalAfterHead(@, hasLength, remote[t])]
    /\ pc' = [pc EXCEPT ![t] = "decide"]
    /\ UNCHANGED <<status, stop_event, downloaded_size, disk, use_range,
                   retry_count, mode, body, cbCount, cbLog, gets>>
    /\ UNCHANGED engineVars
    /\ UNCHANGED envVars
    /\ UNCHANGED callerVars
    /\ UNCHANGED error

\* lines 184-219 over every answer to the HEAD request
HeadRequest(t) ==
    \E ok \in BOOLEAN, hasLength \in BOOLEAN : HeadRequestWith(t, ok, hasLength)

\* ResumeDecision with every non-empty local file appended to
ResumeDecisionAlwaysAppend(range, existing, total) ==
    IF range /\ existing # Absent /\ existing > 0
      THEN IF total # None /\ existing = total THEN "skip" ELSE "append"
      ELSE "fresh"

\* ResumeDecision without the test for a complete local file
ResumeDecisionNoSkip(range, existing, total) ==
    IF range /\ existing # Absent
      THEN IF existing > 0
             THEN IF total = None \/ existing < total
                    THEN "append"
                    ELSE "remove"
             ELSE "fresh"
      ELSE "fresh"

\* lines 221-259: what to do with the local file (existing is its size, or
\* Absent): "skip" the download, "append" with a Range header, "remove" an
\* oversized file and write afresh, or write "fresh"
ResumeDecision(range, existing, total) ==
    IF range /\ existing # Absent
      THEN IF existing > 0
             THEN IF total # None /\ existing = total
                    THEN "skip"
                    ELSE IF total = None \/ existing < total
                           THEN "append"
                           ELSE "remove"
             ELSE "fresh"
      ELSE "fresh"

\* lines 221-259: the resume decision, taken on the file at the current
\* path.  removeFails: os.remove of an oversized file raises OSError, which
\* the code answers by writing afresh all the same.
DecideWith(t, removeFails) ==
    /\ pc[t] = "decide"
    /\ LET existing == disk[t][file_path[t]]
           d == ResumeDecision(use_range[t], existing, total_size[t])
       IN  /\ downloaded_size' = [downloaded_size EXCEPT ![t] =
                                    IF d \in {"skip", "append"} THEN existing ELSE 0]
           /\ mode' = [mode EXCEPT ![t] = IF d = "append" THEN "ab" ELSE "wb"]
           /\ removeFails => d = "remove"
           /\ disk' = [disk EXCEPT ![t][file_path[t]] =
                         IF d = "remove" /\ ~removeFails THEN Absent ELSE @]
           /\ IF d = "skip"
                THEN /\ status' = [status EXCEPT ![t] = "completed"]
                     /\ TriggerCompletionCallbacks(t)
                     /\ pc' = [pc EXCEPT ![t] = "returned"]
                ELSE /\ pc' = [pc EXCEPT ![t] = "get"]
                     /\ UNCHANGED <<status, cbCount, cbLog>>
    /\ UNCHANGED <<stop_event, total_size, file_path, use_range, retry_count,
                   body, gets>>
    /\ UNCHANGED engineVars
    /\ UNCHANGED envVars
    /\ UNCHANGED callerVars
    /\ UNCHANGED error

\* lines 221-259 over both outcomes of os.remove
Decide(t) ==
    \E removeFails \in BOOLEAN : DecideWith(t, removeFails)

\* lines 262-272 and 427-428: the GET raises (timeout, connection, proxy,
\* TLS error) or is answered with an error status other than 416
GetError(t) ==
    /\ pc[t] = "get"
    /\ gets' = [gets EXCEPT ![t] = @ + 1]
    /\ Raise(t, "returned", "request")
    /\ UNCHANGED <<stop_event, total_size, downloaded_size, file_path, disk,
                   use_range, retry_count, mode, body>>
    /\ UNCHANGED engineVars
    /\ UNCHANGED envVars
    /\ UNCHANGED callerVars

\* lines 293-319: total_size after the GET response headers
TotalAfterGet(total, m, hasLength, length, offset) ==
    IF hasLength /\ total = None
      THEN IF m = "ab" THEN length + offset ELSE length
      ELSE total

\* PathAfterGet with the name taken in append mode too
PathAfterGetAnyMode(path, m, hasName, name) ==
    IF hasName THEN name ELSE path

\* lines 274-291: a Content-Disposition name of the GET response is taken
\* only when writing afresh
PathAfterGet(path, m, hasName, name) ==
    IF hasName /\ m = "wb" THEN name ELSE path

\* SizeAfterOpen with the file never truncated
SizeAfterOpenKeeps(m, size) ==
    IF size = Absent THEN 0 ELSE size

\* line 324: open(file_path, mode): "wb" truncates, "ab" keeps the content
SizeAfterOpen(m, size) ==
    IF m = "wb" \/ size = Absent THEN 0 ELSE size

\* lines 262-324: the GET is answered with a success status.  A server that
\* honours the Range header (only possible when one was sent, with an offset
\* inside the file) sends the rest of the file; otherwise it sends the whole
\* file.  The code does not look at the status code (200 or 206).
\* honoured: the answer is a 206 with the rest of the file; otherwise it
\* is a 200 with the whole file.  hasLength: it carries a Content-Length.
\* The Content-Disposition name of the response need not be the one the
\* HEAD response carried (line 274: "redirect changed it"); it is drawn only
\* where the code reads it.
GetOkWith(t, honoured, hasLength) ==
    /\ pc[t] = "get"
    /\ gets' = [gets EXCEPT ![t] = @ + 1]
    /\ honoured => (mode[t] = "ab" /\ downloaded_size[t] < remote[t])
    /\ \E name \in (IF cd[t] /\ mode[t] = "wb" THEN GetNames ELSE {HeaderName}) :
         LET length == IF honoured THEN remote[t] - downloaded_size[t] ELSE remote[t]
             path == PathAfterGet(file_path[t], mode[t], cd[t], name)
         IN  /\ file_path' = [file_path EXCEPT ![t] = path]
             /\ total_size' = [total_size EXCEPT ![t] =
                     TotalAfterGet(@, mode[t], hasLength, length, downloaded_size[t])]
             /\ disk' = [disk EXCEPT ![t][path] = SizeAfterOpen(mode[t], @)]
             /\ body' = [body EXCEPT ![t] = length]
    /\ pc' = [pc EXCEPT ![t] = "stream"]
    /\ UNCHANGED <<status, stop_event, downloaded_size, use_range, retry_count,
                   mode, cbCount, cbLog>>
    /\ UNCHANGED engineVars
    /\ UNCHANGED envVars
    /\ UNCHANGED callerVars
    /\ UNCHANGED error

\* lines 262-324: the successful GET, whatever the server answers
GetOk(t) ==
    \E honoured \in BOOLEAN, hasLength \in BOOLEAN : GetOkWith(t, honoured, hasLength)

\* CompleteAfter416 with a file of exactly the remote size not accepted
CompleteAfter416Longer(existing, hasLength, length) ==
    existing # Absent /\ hasLength /\ existing > length

\* lines 385-388: after a 416, the local file counts as complete when the
\* second HEAD gave a size and the file is at least that long
CompleteAfter416(existing, hasLength, length) ==
    existing # Absent /\ hasLength /\ existing >= length

\* MayRestart with a second restart allowed
MayRestartTwice(retries) ==
    retries <= 1

\* lines 408-411: the restart without Range is tried once only
MayRestart(retries) ==
    retries = 0

\* lines 360-428: the GET is answered 416.  The file size is read and a
\* second HEAD is made (either can raise, which leads to the restart too).
\* The file then counts as complete, or the transfer restarts once without
\* Range, or the 416 is raised again.
\* hasLength: the second HEAD succeeded and carried a Content-Length;
\* removeFails: os.remove raises at the restart.
Answer416(t, hasLength, removeFails) ==
    /\ pc[t] = "get"
    /\ gets' = [gets EXCEPT ![t] = @ + 1]
    /\   LET existing == disk[t][file_path[t]]
         IN  IF CompleteAfter416(existing, hasLength, remote[t])
               THEN /\ ~removeFails
                    /\ total_size' = [total_size EXCEPT ![t] = remote[t]]
                    /\ downloaded_size' = [downloaded_size EXCEPT ![t] = existing]
                    /\ status' = [status EXCEPT ![t] = "completed"]
                    /\ TriggerCompletionCallbacks(t)
                    /\ pc' = [pc EXCEPT ![t] = "returned"]
                    /\ UNCHANGED <<disk, use_range, retry_count, error>>
               ELSE IF MayRestart(retry_count[t])
                 THEN /\ retry_count' = [retry_count EXCEPT ![t] = @ + 1]
                      /\ IF removeFails
                           THEN /\ existing # Absent
                                /\ Raise(t, "returned", "remove")
                                /\ UNCHANGED <<disk, use_range, downloaded_size, total_size>>
                           ELSE /\ disk' = [disk EXCEPT ![t][file_path[t]] = Absent]
                                /\ use_range' = [use_range EXCEPT ![t] = FALSE]
                                /\ downloaded_size' = [downloaded_size EXCEPT ![t] = 0]
                                /\ total_size' = [total_size EXCEPT ![t] = None]
                                /\ pc' = [pc EXCEPT ![t] = "head"]
                                /\ UNCHANGED <<status, error, cbCount, cbLog>>
                 ELSE /\ ~removeFails
                      /\ Raise(t, "returned", "416")
                      /\ UNCHANGED <<disk, use_range, retry_count, downloaded_size,
                                     total_size>>
    /\ UNCHANGED <<stop_event, file_path, mode, body>>
    /\ UNCHANGED engineVars
    /\ UNCHANGED envVars
    /\ UNCHANGED callerVars

\* lines 360-428 over every outcome of the second HEAD and of os.remove
Get416(t) ==
    \E hasLength \in BOOLEAN, removeFails \in BOOLEAN :
        Answer416(t, hasLength, removeFails)

\* DownloadedAfterChunk with the chunk size assigned instead of added
DownloadedAssignedChunk(downloaded) ==
    1

\* lines 333-335: a chunk is written and counted
DownloadedAfterChunk(downloaded) ==
    downloaded + 1

\* StreamChunk with the stop flag looked at after the write instead of
\* before it
StreamChunkLateStop(t) ==
    /\ pc[t] = "stream"
    /\ body[t] > 0
    /\ disk' = [disk EXCEPT ![t][file_path[t]] = @ + 1]
    /\ downloaded_size' = [downloaded_size EXCEPT ![t] = DownloadedAfterChunk(@)]
    /\ body' = [body EXCEPT ![t] = @ - 1]
    /\ IF stop_event[t]
         THEN /\ status' = [status EXCEPT ![t] = "canceled"]
              /\ TriggerCompletionCallbacks(t)
              /\ pc' = [pc EXCEPT ![t] = "closed"]
         ELSE UNCHANGED <<status, cbCount, cbLog, pc>>
    /\ UNCHANGED <<stop_event, total_size, file_path, use_range, retry_count,
                   mode, gets>>
    /\ UNCHANGED engineVars
    /\ UNCHANGED envVars
    /\ UNCHANGED callerVars
    /\ UNCHANGED error

\* lines 325-358: one turn of the streaming loop: the stop flag is looked at
\* first, then the chunk is written and counted, and the progress callback
\* is made when half a second has passed since the last one (due)
StreamChunk(t) ==
    /\ pc[t] = "stream"
    /\ body[t] > 0
    /\ IF stop_event[t]
         THEN /\ status' = [status EXCEPT ![t] = "canceled"]
              /\ TriggerCompletionCallbacks(t)
              /\ pc' = [pc EXCEPT ![t] = "closed"]
              /\ UNCHANGED <<disk, downloaded_size, body>>
         ELSE /\ disk' = [disk EXCEPT ![t][file_path[t]] = @ + 1]
              /\ downloaded_size' = [downloaded_size EXCEPT ![t] = DownloadedAfterChunk(@)]
              /\ body' = [body EXCEPT ![t] = @ - 1]
              /\ \E due \in BOOLEAN, raises \in RaisePatterns(ProgressCallers(t)) :
                   cbLog' = [cbLog EXCEPT ![t] =
                               IF due
                                 THEN Invocations("progress", ProgressCallers(t), raises)
                                 ELSE @]
              /\ UNCHANGED <<status, cbCount, pc>>
    /\ UNCHANGED <<stop_event, total_size, file_path, use_range, retry_count,
                   mode, gets>>
    /\ UNCHANGED engineVars
    /\ UNCHANGED envVars
    /\ UNCHANGED callerVars
    /\ UNCHANGED error

\* line 325: the response iterator raises (the connection breaks or times
\* out) before the next chunk arrives
StreamError(t) ==
    /\ pc[t] = "stream"
    /\ body[t] > 0
    /\ Raise(t, "closed", "stream")
    /\ UNCHANGED <<stop_event, total_size, downloaded_size, file_path, disk,
                   use_range, retry_count, mode, body, gets>>
    /\ UNCHANGED engineVars
    /\ UNCHANGED envVars
    /\ UNCHANGED callerVars

\* lines 430-444: the body is exhausted.  A task still running makes the
\* final progress callback when total_size is known and not 0, and becomes
\* completed; the completion callbacks run whatever the status is
Finish(t) ==
    /\ pc[t] = "stream"
    /\ body[t] = 0
    /\ status' = [status EXCEPT ![t] = IF @ = "running" THEN "completed" ELSE @]
    /\ cbCount' = [cbCount EXCEPT ![t] = @ + 1]
    /\ \E final \in RaisePatterns(ProgressCallers(t)),
          raises \in RaisePatterns(CompletionCallers(t)) :
         cbLog' = [cbLog EXCEPT ![t] =
                     (IF status[t] = "running" /\ total_size[t] \notin {None, 0}
                        THEN Invocations("final", ProgressCallers(t), final)
                        ELSE <<>>)
                     \o Invocations("completion", CompletionCallers(t), raises)]
    /\ pc' = [pc EXCEPT ![t] = "closed"]
    /\ UNCHANGED <<stop_event, total_size, downloaded_size, file_path, disk,
                   use_range, retry_count, mode, body, gets>>
    /\ UNCHANGED engineVars
    /\ UNCHANGED envVars
    /\ UNCHANGED callerVars
    /\ UNCHANGED error

\* lines 332-355 and 446: a chunk is written and the progress callback is
\* due; the first callback ends the thread with an exception that is not an
\* Exception (sys.exit(), KeyboardInterrupt).  Neither the handler around
\* the callback nor the handler of _download catches it: the thread exits
\* with the status left as it is and no completion callback.
ProgressCallbackExits(t) ==
    /\ pc[t] = "stream"
    /\ body[t] > 0
    /\ ~stop_event[t]
    /\ ProgressCallers(t) # <<>>
    /\ disk' = [disk EXCEPT ![t][file_path[t]] = @ + 1]
    /\ downloaded_size' = [downloaded_size EXCEPT ![t] = DownloadedAfterChunk(@)]
    /\ body' = [body EXCEPT ![t] = @ - 1]
    /\ cbLog' = [cbLog EXCEPT ![t] =
                   <<<<"exit", Head(ProgressCallers(t)), TRUE>>>>]
    /\ pc' = [pc EXCEPT ![t] = "closed"]
    /\ UNCHANGED <<status, stop_event, total_size, file_path, use_range,
                   retry_count, mode, cbCount, gets>>
    /\ UNCHANGED engineVars
    /\ UNCHANGED envVars
    /\ UNCHANGED callerVars
    /\ UNCHANGED error

\* ------------------------------------------------------------ the callers

\* CancelCall with the stop flag set whatever the status is
CancelCallAnyStatus(t) ==
    /\ t \in tasks
    /\ cancelpc[t] = "idle"
    /\ stop_event' = [stop_event EXCEPT ![t] = TRUE]
    /\ cancelpc' = [cancelpc EXCEPT ![t] = IF status[t] = "pending" THEN "set" ELSE @]
    /\ UNCHANGED <<status, total_size, downloaded_size, file_path, disk, use_range,
                   retry_count, mode, body, cbCount, cbLog, gets>>
    /\ UNCHANGED <<pc, lastWait, wa, startpc, batch, ca, probe, api>>
    /\ UNCHANGED engineVars
    /\ UNCHANGED envVars
    /\ UNCHANGED error

\* DownloadTask.cancel, lines 508-515: the status is read
CancelCall(t) ==
    /\ t \in tasks
    /\ cancelpc[t] = "idle"
    /\ stop_event' = [stop_event EXCEPT ![t] = @ \/ status[t] = "running"]
    /\ cancelpc' = [cancelpc EXCEPT ![t] = IF status[t] = "pending" THEN "set" ELSE @]
    /\ UNCHANGED <<status, total_size, downloaded_size, file_path, disk, use_range,
                   retry_count, mode, body, cbCount, cbLog, gets>>
    /\ UNCHANGED <<pc, lastWait, wa, startpc, batch, ca, probe, api>>
    /\ UNCHANGED engineVars
    /\ UNCHANGED envVars
    /\ UNCHANGED error

\* DownloadTask.cancel, lines 516-518: the pending branch
CancelPending(t) ==
    /\ cancelpc[t] = "set"
    /\ status' = [status EXCEPT ![t] = "canceled"]
    /\ TriggerCompletionCallbacks(t)
    /\ cancelpc' = [cancelpc EXCEPT ![t] = "idle"]
    /\ UNCHANGED <<stop_event, total_size, downloaded_size, file_path, disk,
                   use_range, retry_count, mode, body, gets>>
    /\ UNCHANGED <<pc, lastWait, wa, startpc, batch, ca, probe, api>>
    /\ UNCHANGED engineVars
    /\ UNCHANGED envVars
    /\ UNCHANGED error

\* DownloadTask.wait, line 522: self._thread and self._thread.is_alive()
ThreadAlive(t) ==
    pc[t] \in InDownload

\* DownloadTask.wait with no timeout: when the task has a live thread the
\* caller is blocked in join() until the thread has exited; in every other
\* case wait() returns at once.  It returns status == "completed".
Wait(t) ==
    /\ t \in tasks
    /\ ~ThreadAlive(t)
    /\ lastWait' = <<t, status[t] = "completed">>
    /\ UNCHANGED <<pc, cancelpc, wa, startpc, batch, ca, probe, api>>
    /\ UNCHANGED taskVars
    /\ UNCHANGED engineVars
    /\ UNCHANGED envVars

\* DownloadEngine.shutdown: cancel_all() calls cancel() on the tasks whose
\* status is running, then the executor is shut down; work already queued
\* is still run by the pool.  The cancel_all() of shutdown() is taken in
\* one step here; its own steps are CancelAllCall, CancelAllTask and
\* CancelAllReturn.
Shutdown ==
    /\ ~shutdown
    /\ shutdown' = TRUE
    /\ stop_event' = [t \in Tasks |-> stop_event[t] \/ (t \in tasks /\ status[t] = "running")]
    /\ UNCHANGED <<tasks, task_id, registry, queue, globals, user_cb, hooked>>
    /\ UNCHANGED <<status, total_size, downloaded_size, file_path, disk, use_range,
                   retry_count, mode, body, cbCount, cbLog, gets>>
    /\ UNCHANGED <<pc, cancelpc, lastWait, wa, startpc, batch, ca, probe, api>>
    /\ UNCHANGED envVars
    /\ UNCHANGED error

\* line 643, executor.shutdown(wait=True): the call returns once the pool
\* has run the work items that were queued and its workers have exited
ShutdownCanReturn ==
    /\ shutdown
    /\ queue = <<>>
    /\ BusyWorkers = 0

\* DownloadEngine.wait_all, lines 867-874: the list of the tasks known at
\* the call is taken; the call is made with a timeout or without one
WaitAllCall(timed) ==
    /\ wa = WaitAllIdle
    /\ wa' = [next |-> 1, n |-> Cardinality(tasks), timed |-> timed,
              all_completed |-> TRUE, expired |-> FALSE]
    /\ UNCHANGED <<pc, cancelpc, lastWait, startpc, batch, ca, probe, api>>
    /\ UNCHANGED taskVars
    /\ UNCHANGED engineVars
    /\ UNCHANGED envVars

\* lines 886-892: the global timeout is found exhausted before a task
WaitAllTimeout ==
    /\ wa.next \in 1..wa.n
    /\ wa.timed
    /\ wa' = [wa EXCEPT !.next = wa.n + 1, !.all_completed = FALSE, !.expired = TRUE]
    /\ UNCHANGED <<pc, cancelpc, lastWait, startpc, batch, ca, probe, api>>
    /\ UNCHANGED taskVars
    /\ UNCHANGED engineVars
    /\ UNCHANGED envVars

\* lines 894-897: task.wait(remaining) on the next task of the list.  It
\* returns when the task has no live thread, or, with a timeout, when the
\* join times out; the task then counts unless its status is completed.
WaitAllTask ==
    /\ wa.next \in 1..wa.n
    /\ LET t == wa.next
       IN  /\ ThreadAlive(t) => wa.timed
           /\ wa' = [wa EXCEPT !.next = @ + 1,
                               !.all_completed = @ /\ status[t] = "completed",
                               !.expired = @ \/ ThreadAlive(t)]
    /\ UNCHANGED <<pc, cancelpc, lastWait, startpc, batch, ca, probe, api>>
    /\ UNCHANGED taskVars
    /\ UNCHANGED engineVars
    /\ UNCHANGED envVars

\* lines 870-872 and 901-906: wait_all returns wa.all_completed
WaitAllReturn ==
    /\ wa.next = wa.n + 1
    /\ wa' = WaitAllIdle
    /\ UNCHANGED <<pc, cancelpc, lastWait, startpc, batch, ca, probe, api>>
    /\ UNCHANGED taskVars
    /\ UNCHANGED engineVars
    /\ UNCHANGED envVars

\* DownloadTask.start called on the task handle by thread c (download()
\* returns the handle while the engine's own start() call may still be
\* queued).  Line 164: the status is read.
DirectStartCheck(t, c) ==
    /\ t \in tasks
    /\ startpc[t][c] = "idle"
    /\ startpc' = [startpc EXCEPT ![t][c] =
                      IF status[t] # "pending" THEN "refused" ELSE "checked"]
    /\ UNCHANGED <<pc, cancelpc, lastWait, wa, batch, ca, probe, api>>
    /\ UNCHANGED taskVars
    /\ UNCHANGED engineVars
    /\ UNCHANGED envVars

\* DownloadTask.start, lines 167-169, on thread c
DirectStartSet(t, c) ==
    /\ startpc[t][c] = "checked"
    /\ status' = [status EXCEPT ![t] = "running"]
    /\ startpc' = [startpc EXCEPT ![t][c] = "set"]
    /\ UNCHANGED <<stop_event, total_size, downloaded_size, file_path, disk,
                   use_range, retry_count, mode, body, cbCount, cbLog, gets>>
    /\ UNCHANGED <<pc, cancelpc, lastWait, wa, batch, ca, probe, api>>
    /\ UNCHANGED engineVars
    /\ UNCHANGED envVars
    /\ UNCHANGED error

\* DownloadTask.start, lines 170-172, on thread c: a thread running
\* _download is created and started
DirectStartLaunch(t, c) ==
    /\ startpc[t][c] = "set"
    /\ startpc' = [startpc EXCEPT ![t][c] = "launched"]
    /\ UNCHANGED <<pc, cancelpc, lastWait, wa, batch, ca, probe, api>>
    /\ UNCHANGED taskVars
    /\ UNCHANGED engineVars
    /\ UNCHANGED envVars

\* line 171: the threads that start() calls have launched for the task,
\* by the engine's call on a pool worker and by the direct calls
Threads(t) ==
    (IF pc[t] \in {"new", "registered", "unsubmitted", "queued", "dropped", "checked", "set"}
       THEN 0 ELSE 1)
    + Cardinality({c \in Starters : startpc[t][c] = "launched"})

\* in batch.made, a URL for which download() raised instead of returning
\* a task
NoTask == 0

\* BatchResult with the new handle put in front
BatchResultPrepend(result, t) ==
    <<t>> \o result

\* line 835: tasks.append(task)
BatchResult(result, t) ==
    Append(result, t)

\* DownloadEngine.download_batch, lines 822-823: the call is made with a
\* list of n URLs
DownloadBatchCall(n) ==
    /\ batch.phase = "idle"
    /\ tasks = {}
    /\ batch' = [phase |-> "next", n |-> n, built |-> 0, made |-> <<>>, result |-> <<>>]
    /\ UNCHANGED <<pc, cancelpc, lastWait, wa, startpc, ca, probe, api>>
    /\ UNCHANGED taskVars
    /\ UNCHANGED engineVars
    /\ UNCHANGED envVars

\* lines 824-836: the next URL of the loop.  download() either raises
\* before it has built the task (a URL or a destination it cannot handle),
\* which is logged and goes on with the next URL, or goes on to build and
\* register the task.
DownloadBatchUrl(bad) ==
    /\ batch.phase = "next"
    /\ Len(batch.made) < batch.n
    /\ ~bad => Cardinality(tasks) < MaxTasks
    /\ batch' = IF bad THEN [batch EXCEPT !.made = Append(@, NoTask)]
                       ELSE [batch EXCEPT !.phase = "download"]
    /\ UNCHANGED <<pc, cancelpc, lastWait, wa, startpc, ca, probe, api>>
    /\ UNCHANGED taskVars
    /\ UNCHANGED engineVars
    /\ UNCHANGED envVars

\* lines 828-834: the download() call of the loop
DownloadBatchDownload(t, w) ==
    /\ batch.phase = "download"
    /\ Cardinality(tasks) = batch.built
    /\ Download(t, TRUE, w, NoCallbacks, 0)

\* lines 835-837: download() has returned the task, which is appended to
\* the list, or it has raised at executor.submit (after shutdown()), which
\* is logged like any other exception
DownloadBatchAppend(t) ==
    /\ batch.phase = "download"
    /\ Cardinality(tasks) = batch.built + 1
    /\ t = Cardinality(tasks)
    /\ batch' = IF pc[t] = "unsubmitted"
                  THEN [batch EXCEPT !.phase = "next", !.built = @ + 1,
                                     !.made = Append(@, NoTask)]
                  ELSE [batch EXCEPT !.phase = "next", !.built = @ + 1,
                                     !.made = Append(@, t),
                                     !.result = BatchResult(@, t)]
    /\ UNCHANGED <<pc, cancelpc, lastWait, wa, startpc, ca, probe, api>>
    /\ UNCHANGED taskVars
    /\ UNCHANGED engineVars
    /\ UNCHANGED envVars

\* line 838: the loop is over and the list is returned
DownloadBatchReturn ==
    /\ batch.phase = "next"
    /\ Len(batch.made) = batch.n
    /\ batch' = [batch EXCEPT !.phase = "returned"]
    /\ UNCHANGED <<pc, cancelpc, lastWait, wa, startpc, ca, probe, api>>
    /\ UNCHANGED taskVars
    /\ UNCHANGED engineVars
    /\ UNCHANGED envVars

\* the tasks of S in the order of the registry (dict insertion order, the
\* order of the download() calls)
InRegistryOrder(S) ==
    [i \in 1..Cardinality(S) |-> CHOOSE t \in S : Cardinality({u \in S : u < t}) = i - 1]

\* get_active_tasks with the pending tasks taken as active too
get_unfinished_tasks ==
    InRegistryOrder({t \in tasks : status[t] \in {"pending", "running"}})

\* DownloadEngine.get_active_tasks, lines 850-853: the tasks whose status is
\* running, read under the lock
get_active_tasks ==
    InRegistryOrder({t \in tasks : status[t] = "running"})

\* DownloadEngine.cancel_all, lines 857-860: the snapshot of the active
\* tasks; with no active task the call returns at once
CancelAllCall ==
    /\ ca = CancelAllIdle
    /\ ca' = IF get_active_tasks = <<>> THEN CancelAllIdle
                                         ELSE [next |-> 1, active |-> get_active_tasks]
    /\ UNCHANGED <<pc, cancelpc, lastWait, wa, startpc, batch, probe, api>>
    /\ UNCHANGED taskVars
    /\ UNCHANGED engineVars
    /\ UNCHANGED envVars

\* DownloadEngine.cancel_all, lines 862-863: task.cancel() on the next task
\* of the snapshot.  cancel() reads the status of the task as it is now
\* (lines 508-518).
CancelAllTask ==
    /\ ca.next \in 1..Len(ca.active)
    /\ LET t == ca.active[ca.next]
       IN  /\ stop_event' = [stop_event EXCEPT ![t] = @ \/ status[t] = "running"]
           /\ IF status[t] = "pending"
                 THEN /\ status' = [status EXCEPT ![t] = "canceled"]
                      /\ TriggerCompletionCallbacks(t)
                 ELSE UNCHANGED <<status, cbCount, cbLog>>
    /\ ca' = [ca EXCEPT !.next = @ + 1]
    /\ UNCHANGED <<total_size, downloaded_size, file_path, disk, use_range,
                   retry_count, mode, body, gets>>
    /\ UNCHANGED <<pc, cancelpc, lastWait, wa, startpc, batch, probe, api>>
    /\ UNCHANGED engineVars
    /\ UNCHANGED envVars
    /\ UNCHANGED error

\* DownloadEngine.cancel_all returns when the loop is over; no thread is
\* joined
CancelAllReturn ==
    /\ ca.next > Len(ca.active)
    /\ ca.next > 0
    /\ ca' = CancelAllIdle
    /\ UNCHANGED <<pc, cancelpc, lastWait, wa, startpc, batch, probe, api>>
    /\ UNCHANGED taskVars
    /\ UNCHANGED engineVars
    /\ UNCHANGED envVars

\* _progress as __init__ leaves it (line 97): 0.0, written as the fraction
\* <<numerator, denominator>>
NoProgress ==
    <<0, 1>>

\* DownloadTask.progress, lines 103-108, as a fraction: downloaded_size /
\* total_size when total_size is truthy and positive, else the stored
\* _progress
progress(total, downloaded, stored) ==
    IF total \notin {None, 0} /\ total > 0
      THEN <<downloaded, total>>
      ELSE stored

\* eta with the remaining bytes not tested
etaOfRemaining(speed, total, downloaded) ==
    IF speed > 0 /\ total \notin {None, 0}
      THEN (total - downloaded) \div speed
      ELSE None

\* DownloadTask.eta, lines 153-160: None unless speed > 0, total_size is
\* truthy and bytes remain; int() of the quotient of two positive numbers
\* is its integer part
eta(speed, total, downloaded) ==
    IF speed > 0 /\ total \notin {None, 0}
      THEN IF total - downloaded > 0
             THEN (total - downloaded) \div speed
             ELSE None
      ELSE None

\* the task states the eta property is read in
EtaInputs ==
    [kind : {"eta"}, speed : 0..MaxSpeed, total : {None} \cup (0..MaxBytes),
     downloaded : 0..MaxBytes, result : {<<>>}]

\* task.eta is read
EtaRead ==
    /\ probe.kind = "eta"
    /\ probe.result = <<>>
    /\ probe' = [probe EXCEPT !.result = <<eta(probe.speed, probe.total, probe.downloaded)>>]
    /\ UNCHANGED <<pc, cancelpc, lastWait, wa, startpc, batch, ca, api>>
    /\ UNCHANGED taskVars
    /\ UNCHANGED engineVars
    /\ UNCHANGED envVars

\* ------------------------------------------------ get_filename_from_url
\* A string is a sequence of characters.  A URL is given by its path and its
\* query as urlparse splits them, still percent-encoded: "%2F" and "%20" are
\* the escapes of "/" and " ".
RawChars == {"a", "1", ".", "/", ":", "%2F", "%20"}

Digits == {"0", "1", "2", "3", "4", "5", "6", "7", "8", "9"}

\* the character class of the two re.sub calls (lines 782 and 798)
Illegal == {"\\", "/", "*", "?", ":", "\"", "<", ">", "|"}

\* urllib.parse.unquote
unquote(str) ==
    [i \in 1..Len(str) |->
        CASE str[i] = "%2F" -> "/"
          [] str[i] = "%20" -> " "
          [] OTHER -> str[i]]

\* os.path.basename: what follows the last "/"
basename(path) ==
    LET slashes == {i \in 1..Len(path) : path[i] = "/"}
        last == IF slashes = {} THEN 0
                ELSE CHOOSE i \in slashes : \A j \in slashes : j <= i
    IN  SubSeq(path, last + 1, Len(path))

\* c in str
Contains(str, c) ==
    \E i \in 1..Len(str) : str[i] = c

\* str.strip()
strip(str) ==
    LET kept == {i \in 1..Len(str) : str[i] # " "}
    IN  IF kept = {} THEN <<>>
        ELSE SubSeq(str, CHOOSE i \in kept : \A j \in kept : i <= j,
                         CHOOSE i \in kept : \A j \in kept : j <= i)

\* a sanitization that only strips
sanitizeStripOnly(str) ==
    strip(str)

\* re.sub(r'[\\/*?:"<>|]', "_", str).strip()
sanitize(str) ==
    strip([i \in 1..Len(str) |-> IF str[i] \in Illegal THEN "_" ELSE str[i]])

\* str.isdigit()
isdigit(str) ==
    /\ str # <<>>
    /\ \A i \in 1..Len(str) : str[i] \in Digits

IsBlank(pair) == pair.value = <<>>

\* urllib.parse.parse_qs(query)[key]: the decoded values of the key in the
\* order of the query, blank values dropped; <<>> when the key is not in
\* the result
parse_qs(query, key) ==
    LET kept == SelectSeq(query, LAMBDA pair : pair.key = key /\ ~IsBlank(pair))
    IN  [i \in 1..Len(kept) |-> unquote(kept[i].value)]

DownloadPrefix == <<"d", "o", "w", "n", "l", "o", "a", "d", "_">>
DefaultExtension == <<".", "d", "o", "w", "n", "l", "o", "a", "d">>

\* f"download_{hash_obj.hexdigest()[:8]}"
HashName(url) ==
    DownloadPrefix \o url.digest

\* DownloadEngine.get_filename_from_url, lines 762-812.  url.parses is
\* FALSE when urlparse raises; url.digest is hashlib.md5(url).hexdigest()[:8]
get_filename_from_url(url) ==
    IF ~url.parses
      THEN HashName(url) \o DefaultExtension
      ELSE
        LET path == unquote(url.path)
            from_path == basename(path)
            filenames == parse_qs(url.query, "filename")
            ids == parse_qs(url.query, "id")
            base_filename ==
                IF from_path = <<>> \/ ~Contains(from_path, ".")
                      \/ (from_path # <<>> /\ from_path[Len(from_path)] = "/")
                  THEN IF filenames # <<>> /\ filenames[1] # <<>>
                         THEN sanitize(filenames[1])
                       ELSE IF ids # <<>> /\ isdigit(ids[1])
                         THEN DownloadPrefix \o ids[1]
                       ELSE HashName(url)
                  ELSE from_path
            with_extension ==
                IF ~Contains(base_filename, ".")
                  THEN base_filename \o DefaultExtension
                  ELSE base_filename
            sanitized == sanitize(with_extension)
        IN  IF sanitized = <<>>
              THEN HashName(url) \o DefaultExtension
              ELSE sanitized

\* strings of at most n characters
StringsUpTo(chars, n) ==
    UNION {[1..k -> chars] : k \in 0..n}

\* the first eight characters of an md5 hexdigest
Digests ==
    {[i \in 1..8 |-> "a"], [i \in 1..8 |-> "1"]}

QueryPairs ==
    [key : {"filename", "id"}, value : StringsUpTo(RawChars, 1)]

\* the URLs get_filename_from_url is called with
Urls ==
    {url \in [parses : BOOLEAN, path : StringsUpTo(RawChars, MaxPathLen),
              query : StringsUpTo(QueryPairs, MaxPairs), digest : Digests] :
        url.parses \/ (url.path = <<>> /\ url.query = <<>>)}

FilenameInputs ==
    [kind : {"filename"}, url : Urls, result : {<<>>}]

\* engine.get_filename_from_url(url) is called
GetFilenameFromUrl ==
    /\ probe.kind = "filename"
    /\ probe.result = <<>>
    /\ probe' = [probe EXCEPT !.result = <<get_filename_from_url(probe.url)>>]
    /\ UNCHANGED <<pc, cancelpc, lastWait, wa, startpc, batch, ca, api>>
    /\ UNCHANGED taskVars
    /\ UNCHANGED engineVars
    /\ UNCHANGED envVars

\* ------------------------------------------- CivitaiAPI._rate_limited_request
ApiFrame ==
    /\ UNCHANGED <<pc, cancelpc, lastWait, wa, startpc, batch, ca, probe>>
    /\ UNCHANGED taskVars
    /\ UNCHANGED engineVars
    /\ UNCHANGED envVars

\* a threading.Lock can be taken only while no thread holds it, the thread
\* that holds it included
CanAcquire(lock, th) ==
    lock = NoThread

\* thread th calls _rate_limited_request and reaches `with self.request_lock`
ApiCall(th) ==
    /\ api.apc[th] = "idle"
    /\ api' = [api EXCEPT !.apc[th] = "lock", !.frames[th] = 1,
                          !.response[th] = None]
    /\ ApiFrame

\* request_lock.__enter__ succeeds; the rate-limit sleep changes no state
ApiAcquire(th) ==
    /\ api.apc[th] = "lock"
    /\ CanAcquire(api.lock, th)
    /\ api' = [api EXCEPT !.lock = th, !.apc[th] = "request"]
    /\ ApiFrame

\* session.request returns a response that is not a 429: the response is
\* returned through every frame and the `with` blocks release the lock
ApiReturn(th, code) ==
    /\ api.apc[th] = "request"
    /\ code # TooManyRequests
    /\ api' = [api EXCEPT !.lock = NoThread, !.apc[th] = "returned",
                          !.frames[th] = 0, !.response[th] = code]
    /\ ApiFrame

\* session.request returns a 429: the interval is doubled and
\* _rate_limited_request is called again from inside the `with` block
ApiTooManyRequests(th) ==
    /\ api.apc[th] = "request"
    /\ api.frames[th] <= MaxBackoff
    /\ api' = [api EXCEPT !.min_request_interval = 2 * @,
                          !.apc[th] = "lock", !.frames[th] = @ + 1]
    /\ ApiFrame

\* session.request raises: APIError leaves the `with` blocks
ApiRaise(th) ==
    /\ api.apc[th] = "request"
    /\ api' = [api EXCEPT !.lock = NoThread, !.apc[th] = "raised",
                          !.frames[th] = 0]
    /\ ApiFrame

\* the caller goes on after the call
ApiDone(th) ==
    /\ api.apc[th] \in {"returned", "raised"}
    /\ api' = [api EXCEPT !.apc[th] = "idle"]
    /\ ApiFrame

\* the steps of thread th inside _rate_limited_request
ApiStep(th) ==
    \/ ApiAcquire(th)
    \/ \E code \in StatusCodes : ApiReturn(th, code)
    \/ ApiTooManyRequests(th)
    \/ ApiRaise(th)

\* ------------------------------------------------------ the specification

\* the steps of start() on a pool worker and of the task's own thread
TaskStep(t) ==
    \/ StartCheck(t)
    \/ StartSet(t)
    \/ StartLaunch(t)
    \/ MakedirsFails(t)
    \/ HeadRequest(t)
    \/ Decide(t)
    \/ GetError(t)
    \/ GetOk(t)
    \/ Get416(t)
    \/ StreamChunk(t)
    \/ StreamError(t)
    \/ Finish(t)

\* The engine with up to MaxTasks tasks: download(), cancel() and shutdown()
\* called from any thread at any time.
Next ==
    \/ \E t \in Tasks, w \in EngineWorlds : Download(t, TRUE, w, NoCallbacks, 0)
    \/ \E t \in Tasks : TaskStep(t)
    \/ \E t \in Tasks : CancelCall(t)
    \/ \E t \in Tasks : CancelPending(t)
    \/ Shutdown

Spec == Init /\ [][Next]_vars

\* Threads are scheduled fairly and every request returns or raises: a
\* pool worker or a task thread that can take a step takes one, and a
\* cancel() call that has begun comes to its end.
FairSpec ==
    /\ Spec
    /\ \A t \in Tasks : WF_vars(TaskStep(t))
    /\ \A t \in Tasks : WF_vars(CancelPending(t))

\* One task in every world, with cancel() and wait() called at any time.
TaskNext ==
    \/ \E range \in BOOLEAN, w \in Worlds : Download(1, range, w, NoCallbacks, 0)
    \/ TaskStep(1)
    \/ CancelCall(1)
    \/ CancelPending(1)
    \/ Wait(1)

TaskSpec == Init /\ [][TaskNext]_vars

\* start() alone: the engine's start() call on a pool worker and direct
\* start() calls from other threads, on the same task handles.  The
\* launched threads are not followed.
StartNext ==
    \/ \E t \in Tasks, w \in EngineWorlds : Download(t, TRUE, w, NoCallbacks, 0)
    \/ \E t \in Tasks : StartCheck(t)
    \/ \E t \in Tasks : StartSet(t)
    \/ \E t \in Tasks : StartLaunch(t)
    \/ \E t \in Tasks, c \in Starters : DirectStartCheck(t, c)
    \/ \E t \in Tasks, c \in Starters : DirectStartSet(t, c)
    \/ \E t \in Tasks, c \in Starters : DirectStartLaunch(t, c)

StartSpec == Init /\ [][StartNext]_vars

\* One task with its callbacks: download() in its two halves, the worker,
\* cancel() and wait() from other threads, and the registration of global
\* callbacks at any time.
CallbackNext ==
    \/ \E w \in EngineWorlds, ucb \in UserCallbacks : DownloadRegister(1, TRUE, w, ucb, 0)
    \/ DownloadHook(1)
    \/ TaskStep(1)
    \/ ProgressCallbackExits(1)
    \/ CancelCall(1)
    \/ CancelPending(1)
    \/ Wait(1)
    \/ RegisterCompletionCallback
    \/ RegisterProgressCallback

CallbackSpec == Init /\ [][CallbackNext]_vars

\* the worlds of a download into an empty directory from a server that
\* sends no Content-Disposition; the remote file may be empty
ProgressWorlds ==
    { w \in Worlds : ~w.cd /\ w.orig = Absent }

\* One task with the caller's callbacks and engine-global callbacks, and no
\* cancel() or shutdown() call at all.
ProgressNext ==
    \/ \E w \in ProgressWorlds, ucb \in UserCallbacks : Download(1, TRUE, w, ucb, 0)
    \/ TaskStep(1)
    \/ RegisterCompletionCallback
    \/ RegisterProgressCallback

ProgressSpec == Init /\ [][ProgressNext]_vars

\* Concurrent download() calls on one engine, each in its two halves, at
\* any clock values, with shutdown().
RegistryNext ==
    \/ \E t \in Tasks, w \in EngineWorlds, ucb \in UserCallbacks, now \in Clock :
          DownloadRegister(t, TRUE, w, ucb, now)
    \/ \E t \in Tasks : DownloadHook(t)
    \/ Shutdown

RegistrySpec == Init /\ [][RegistryNext]_vars

\* The engine with wait_all(): download() calls, the workers, and one
\* caller thread in wait_all.
WaitAllNext ==
    \/ \E t \in Tasks, w \in EngineWorlds : Download(t, TRUE, w, NoCallbacks, 0)
    \/ \E t \in Tasks : TaskStep(t)
    \/ \E timed \in BOOLEAN : WaitAllCall(timed)
    \/ WaitAllTimeout
    \/ WaitAllTask
    \/ WaitAllReturn

WaitAllSpec == Init /\ [][WaitAllNext]_vars

\* One download_batch() call on a fresh engine, with the workers running
\* the tasks it creates and shutdown() called at any time.
BatchNext ==
    \/ \E n \in 1..MaxUrls : DownloadBatchCall(n)
    \/ \E bad \in BOOLEAN : DownloadBatchUrl(bad)
    \/ \E t \in Tasks, w \in EngineWorlds : DownloadBatchDownload(t, w)
    \/ \E t \in Tasks : DownloadBatchAppend(t)
    \/ DownloadBatchReturn
    \/ \E t \in Tasks : TaskStep(t)
    \/ Shutdown

BatchSpec == Init /\ [][BatchNext]_vars

\* The engine with cancel_all(): download() calls, the workers, and one
\* caller thread in cancel_all.
CancelAllNext ==
    \/ \E t \in Tasks, w \in EngineWorlds : Download(t, TRUE, w, NoCallbacks, 0)
    \/ \E t \in Tasks : TaskStep(t)
    \/ CancelAllCall
    \/ CancelAllTask
    \/ CancelAllReturn

CancelAllSpec == Init /\ [][CancelAllNext]_vars

\* The eta property read on a task with any speed, total and downloaded
\* size.
EtaInit ==
    /\ InitState
    /\ probe \in EtaInputs
    /\ api = ApiIdle

EtaNext ==
    EtaRead

EtaSpec == EtaInit /\ [][EtaNext]_vars

\* download() called several times with one URL and one output directory:
\* get_filename_from_url gives every task the same final_file_path (lines
\* 679-697), so equal names are the same file.  Nothing is on disk, and the
\* tasks are followed up to the opening of the file: until then the file is
\* absent or empty, which the resume decision of every task treats alike.
SamePathNext ==
    \/ \E t \in Tasks, w \in EngineWorlds : Download(t, TRUE, w, NoCallbacks, 0)
    \/ \E t \in Tasks : StartCheck(t)
    \/ \E t \in Tasks : StartSet(t)
    \/ \E t \in Tasks : StartLaunch(t)
    \/ \E t \in Tasks : HeadRequest(t)
    \/ \E t \in Tasks : Decide(t)
    \/ \E t \in Tasks : GetError(t)
    \/ \E t \in Tasks : GetOk(t)

SamePathSpec == Init /\ [][SamePathNext]_vars

\* Threads calling the API client.  Every thread inside
\* _rate_limited_request goes on when it can (the server answers every
\* request); no thread has to start a call.
ApiNext ==
    \E th \in ApiThreads :
        \/ ApiCall(th)
        \/ ApiStep(th)
        \/ ApiDone(th)

ApiSpec == Init /\ [][ApiNext]_vars /\ \A th \in ApiThreads : WF_vars(ApiStep(th))

\* get_filename_from_url called with any URL.
FilenameInit ==
    /\ InitState
    /\ probe \in FilenameInputs
    /\ api = ApiIdle

FilenameNext ==
    GetFilenameFromUrl

FilenameSpec == FilenameInit /\ [][FilenameNext]_vars

\* ------------------------------------------------------------ properties

AllowedTransitions ==
    { <<"pending", "running">>, <<"pending", "canceled">>,
      <<"running", "completed">>, <<"running", "failed">>,
      <<"running", "canceled">> }

\* C1: a new task is pending, every change of a task's status is one of
\* pending->running, pending->canceled, running->completed, running->failed,
\* running->canceled, and a terminal status never changes, under every
\* interleaving of start(), cancel() and the task's thread.
C1_StatusTransitions ==
    [][\A t \in Tasks :
         /\ (t \notin tasks /\ t \in tasks') => status'[t] = "pending"
         /\ status'[t] # status[t] => <<status[t], status'[t]>> \in AllowedTransitions]_vars

\* C2: the completion callbacks of a task are fired exactly once over its
\* lifetime: never twice, and not zero times once the task is terminal.
C2_CallbacksExactlyOnce ==
    \A t \in tasks :
        /\ cbCount[t] <= 1
        /\ status[t] \in Terminal => cbCount[t] = 1

\* C3: at most concurrent_downloads tasks have status running, however many
\* were submitted.
C3_RunningBounded ==
    Cardinality({t \in tasks : status[t] = "running"}) <= concurrent_downloads

\* C4: when wait() with no timeout returns, the task is in a terminal state
\* and the result is true iff that state is completed, also when wait() is
\* called right after download().
C4_WaitReturnsTerminal ==
    [][\A t \in Tasks :
         (lastWait' # lastWait /\ lastWait'[1] = t)
            => /\ status'[t] \in Terminal
               /\ lastWait'[2] <=> (status'[t] = "completed")]_vars

\* C5: every task in the registry eventually reaches a terminal state, given
\* fair scheduling and requests that return, shutdown() included.
C5_EveryTaskTerminates ==
    \A t \in Tasks : (t \in tasks) ~> (status[t] \in Terminal)

\* C6: whenever total_size is known, downloaded_size <= total_size.
C6_DownloadedWithinTotal ==
    \A t \in tasks :
        total_size[t] # None => downloaded_size[t] <= total_size[t]

\* the automatic restart after a 416 (lines 408-422)
Restarts(t) ==
    /\ retry_count'[t] = retry_count[t] + 1
    /\ pc[t] = "get"
    /\ pc'[t] = "head"

\* C7 (as claimed): while the status is running, downloaded_size never
\* decreases from one state of the worker to the next, the 416 handling and
\* the automatic restart included.
C7_NeverDecreases ==
    [][\A t \in Tasks :
         status[t] = "running" => downloaded_size'[t] >= downloaded_size[t]]_vars

\* C7 (amended): while the status is running, downloaded_size never
\* decreases from one state of the worker to the next, except at the
\* automatic restart after a 416, which resets it to 0.
C7_NeverDecreasesButAtRestart ==
    [][\A t \in Tasks :
         status[t] = "running" =>
            \/ downloaded_size'[t] >= downloaded_size[t]
            \/ Restarts(t) /\ downloaded_size'[t] = 0]_vars

\* a restarted transfer that is streaming again
C7_Witness ==
    \E t \in tasks :
        /\ status[t] = "running"
        /\ retry_count[t] = 1
        /\ pc[t] = "stream"
        /\ downloaded_size[t] > 0

\* os.path.getsize of the file at the task's current path, 0 when absent
FileLen(t) ==
    IF disk[t][file_path[t]] = Absent THEN 0 ELSE disk[t][file_path[t]]

\* line 325: the offset in the remote file of the next chunk the response
\* body delivers (the server sends the body up to the end of the file)
RespOffset(t) ==
    remote[t] - body[t]

SkipsTransfer(t) ==
    /\ pc'[t] = "returned"
    /\ status'[t] = "completed"
    /\ downloaded_size'[t] = total_size'[t]
    /\ cbCount'[t] = cbCount[t] + 1
    /\ gets'[t] = 0

\* C9 (as claimed): when the local file exists and its size equals the known
\* remote total, the task issues no GET, ends completed with
\* downloaded_size = total_size and fires its completion callbacks.
C9_CompleteFileSkipsGet ==
    [][\A t \in Tasks :
         (/\ pc[t] = "decide"
          /\ pc'[t] # "decide"
          /\ disk[t][file_path[t]] # Absent
          /\ total_size[t] # None
          /\ disk[t][file_path[t]] = total_size[t])
            => SkipsTransfer(t)]_vars

\* C9 (amended): when range-resume is enabled and the local file exists with
\* a size that is not 0 and equals the known remote total, the task issues
\* no GET, ends completed with downloaded_size = total_size and fires its
\* completion callbacks.
C9_CompleteFileSkipsGetWithRange ==
    [][\A t \in Tasks :
         (/\ pc[t] = "decide"
          /\ pc'[t] # "decide"
          /\ use_range[t]
          /\ disk[t][file_path[t]] > 0
          /\ total_size[t] # None
          /\ disk[t][file_path[t]] = total_size[t])
            => SkipsTransfer(t)]_vars

\* a task that skipped the transfer of a complete local file
C9_Witness ==
    \E t \in tasks :
        /\ pc[t] = "returned"
        /\ status[t] = "completed"
        /\ use_range[t]
        /\ gets[t] = 0
        /\ cbCount[t] = 1
        /\ total_size[t] > 0
        /\ downloaded_size[t] = total_size[t]
        /\ disk[t][file_path[t]] = total_size[t]

\* C10: cancel() on a pending task sets the status to canceled and fires
\* the completion callbacks before it returns, and afterwards no worker
\* ever runs the task: the status stays canceled and no thread is launched.
C10_PendingCancelIsFinal ==
    [][\A t \in Tasks :
         /\ (cancelpc[t] = "set" /\ cancelpc'[t] = "idle")
               => (status'[t] = "canceled" /\ cbCount'[t] = cbCount[t] + 1)
         /\ (status[t] = "canceled" /\ pc[t] \in {"unsubmitted", "queued", "checked"})
               => (status'[t] = "canceled" /\ pc'[t] \notin {"set"} \cup InDownload)]_vars

\* the task has been through the single restart of the 416 recovery: the
\* file was removed and the transfer is repeated without Range
Restarted(t) ==
    retry_count[t] = 1 /\ ~use_range[t]

\* C11: after a first GET answered 416 and the restart, the task ends
\* completed when the range-less GET succeeds and its body is read to the
\* end, and it ends failed when the GET of the restarted attempt is
\* answered 416 as well.
C11_RestartOutcome ==
    [][\A t \in Tasks :
          Restarted(t) =>
              /\ Finish(t) => status'[t] = "completed"
              /\ Get416(t) => status'[t] = "failed"]_vars

\* C12: when a GET that carried a Range header is answered 416 and the
\* second HEAD reports a remote size that the local file equals or exceeds,
\* the task ends completed, the local file is not deleted, and the worker
\* returns without any further GET.
C12_CompleteFileAfter416 ==
    [][\A t \in Tasks :
          /\ ( /\ mode[t] = "ab"
               /\ disk[t][file_path[t]] # Absent
               /\ disk[t][file_path[t]] >= remote[t]
               /\ Answer416(t, TRUE, FALSE) )
                => ( /\ status'[t] = "completed"
                     /\ pc'[t] = "returned"
                     /\ disk'[t] = disk[t] )
          /\ pc[t] = "returned"
                => (pc'[t] = "returned" /\ gets'[t] = gets[t] /\ disk'[t] = disk[t])]_vars

\* a resumed task that ended through the complete-file branch of the 416
\* handler: one GET, nothing transferred, the local file still in place
C12_Witness ==
    \E t \in tasks :
        /\ pc[t] = "returned"
        /\ status[t] = "completed"
        /\ mode[t] = "ab"
        /\ gets[t] = 1
        /\ retry_count[t] = 0
        /\ disk[t][file_path[t]] >= remote[t]
        /\ total_size[t] = remote[t]

\* C13: when the worker of a running task sees the stop flag at a chunk
\* boundary, the task ends canceled, the pending chunk is not written, the
\* partial file stays on disk with exactly downloaded_size bytes, and
\* nothing is written to it afterwards.
C13_CancelAtChunkBoundary ==
    [][\A t \in Tasks :
          /\ (stop_event[t] /\ StreamChunk(t))
                => ( /\ status'[t] = "canceled"
                     /\ pc'[t] = "closed"
                     /\ disk'[t] = disk[t]
                     /\ disk'[t][file_path'[t]] # Absent
                     /\ disk'[t][file_path'[t]] = downloaded_size'[t] )
          /\ pc[t] = "closed"
                => ( /\ pc'[t] = "closed"
                     /\ disk'[t] = disk[t]
                     /\ downloaded_size'[t] = downloaded_size[t] )]_vars

\* a transfer stopped by cancel() between two chunks: one chunk is on disk,
\* the rest of the body was never written, the callbacks have run
C13_Witness ==
    \E t \in tasks :
        /\ pc[t] = "closed"
        /\ status[t] = "canceled"
        /\ stop_event[t]
        /\ cancelpc[t] = "idle"
        /\ body[t] > 0
        /\ disk[t][file_path[t]] = downloaded_size[t]
        /\ downloaded_size[t] < remote[t]
        /\ cbCount[t] = 1

\* C14: in a resumed transfer (the file opened for append behind a local
\* part that is a prefix of the remote file), every chunk appended is the
\* remote chunk at the offset where the file ends, whatever the server
\* answered to the Range request, and the file of a completed task has the
\* length of the remote file.
C14_ResumeAppendsInPlace ==
    \A t \in tasks :
        mode[t] = "ab" =>
            /\ (pc[t] = "stream" /\ body[t] > 0 /\ FileLen(t) < remote[t])
                  => RespOffset(t) = FileLen(t)
            /\ (pc[t] = "closed" /\ status[t] = "completed")
                  => FileLen(t) = remote[t]

\* C15: when wait() is called on a task whose thread has exited with the
\* status still running, it sets the status to completed if the file on
\* disk has the known total size and to failed otherwise, and returns TRUE
\* iff the status it set is completed.
C15_WaitReconciles ==
    [][\A t \in Tasks :
          (pc[t] \in Exited /\ status[t] = "running" /\ Wait(t))
              => /\ status'[t] = IF total_size[t] # None /\ FileLen(t) = total_size[t]
                                   THEN "completed" ELSE "failed"
                 /\ lastWait'[2] <=> (status'[t] = "completed")]_vars

\* the tasks known to the engine when the wait_all() in progress was called
WaitedTasks ==
    1..wa.n

\* C16: wait_all(timeout) returns only when every task known at the call is
\* in a terminal state or the timeout is exhausted (never, without a
\* timeout, while one of them is pending or running), and it returns TRUE
\* iff all of those tasks are completed.
C16_WaitAllReturnsWhenDone ==
    [][WaitAllReturn =>
          /\ wa.expired \/ \A t \in WaitedTasks : status[t] \in Terminal
          /\ wa.all_completed <=> \A t \in WaitedTasks : status[t] = "completed"]_vars

\* the callbacks a log names, in the order of their invocation
Called(log) ==
    [i \in 1..Len(log) |-> <<log[i][1], log[i][2]>>]

\* the invocations one event of the given kind owes to the callbacks c
Owed(kind, c) ==
    [i \in 1..Len(c) |-> <<kind, c[i]>>]

\* the worker of task t meets an error: os.makedirs, the GET, the body
\* iterator, os.remove at the restart, or a 416 that is not recovered
WorkerError(t) ==
    \/ MakedirsFails(t)
    \/ GetError(t)
    \/ StreamError(t)
    \/ Get416(t) /\ pc'[t] = "returned" /\ status'[t] # "completed"

\* C17: an error raised during the transfer is caught in the worker: the
\* task ends failed with error holding the message, the caller's and the
\* global completion callbacks are invoked, the status was never completed
\* and no final progress callback is made.
C17_ErrorsEndFailed ==
    [][\A t \in Tasks :
          WorkerError(t) =>
              /\ status[t] # "completed"
              /\ status'[t] = "failed"
              /\ error'[t] \in Errors
              /\ cbCount'[t] = cbCount[t] + 1
              /\ Called(cbLog'[t]) =
                    Owed("completion", Callers(user_cb[t].completion, globals.completion))]_vars

\* the part of a log made for events of one kind
OfKind(log, kind) ==
    LET IsKind(e) == e[1] = kind
    IN  SelectSeq(Called(log), IsKind)

\* C18: for every completion event and every progress event of a task
\* created by download(), the caller's own callback (if any) is invoked
\* first and then every engine-global callback registered at that time.
C18_CallerThenGlobals ==
    [][\A t \in tasks :
          /\ cbCount'[t] = cbCount[t] + 1
                => OfKind(cbLog'[t], "completion")
                      = Owed("completion", Callers(user_cb[t].completion, globals.completion))
          /\ cbLog'[t] # cbLog[t]
                => \A kind \in {"progress", "final"} :
                      OfKind(cbLog'[t], kind)
                          \in {<<>>, Owed(kind, Callers(user_cb[t].progress, globals.progress))}]_vars

\* some callback of the log raised an Exception
SomeRaised(log) ==
    \E i \in 1..Len(log) : log[i][1] # "exit" /\ log[i][3]

C20_UniqueTaskIds ==
    /\ \A t \in tasks, u \in tasks : task_id[t] = task_id[u] => t = u
    /\ \A t \in tasks : get_task(task_id[t]) = t
    /\ Cardinality(DOMAIN registry) = Cardinality(tasks)

\* two download() calls made within the same second, the second one
\* registered before the first has attached its callbacks
C20_Witness ==
    /\ tasks = {1, 2}
    /\ task_id[1][2] = task_id[2][2]
    /\ pc[1] = "registered"
    /\ pc[2] = "registered"

\* the local file the resume decision of task t looks at, and the row of
\* the decision table it falls in
Existing(t) ==
    disk[t][file_path[t]]

NoLocalData(t) ==
    Existing(t) \in {Absent, 0}

Resumable(t) ==
    /\ Existing(t) # Absent
    /\ Existing(t) > 0
    /\ total_size[t] = None \/ Existing(t) < total_size[t]

Oversized(t) ==
    /\ Existing(t) # Absent
    /\ total_size[t] # None
    /\ Existing(t) > total_size[t]

\* the decision ends in a fresh write from offset 0 without Range header
FreshWrite(t) ==
    /\ pc'[t] = "get"
    /\ mode'[t] = "wb"
    /\ downloaded_size'[t] = 0

\* C24 (as claimed): the resume decision follows the table: no file or an
\* empty one -> fresh write from offset 0 without Range; a file of size s
\* below the known total, or with the total unknown, and range-resume
\* enabled -> append with Range: bytes=s- and downloaded_size = s; a file
\* larger than the known total -> the file is deleted and written afresh.
C24_ResumeTable ==
    [][\A t \in Tasks :
          Decide(t) =>
              /\ NoLocalData(t) => (FreshWrite(t) /\ disk'[t] = disk[t])
              /\ (Resumable(t) /\ use_range[t])
                    => ( /\ pc'[t] = "get"
                         /\ mode'[t] = "ab"
                         /\ downloaded_size'[t] = Existing(t)
                         /\ disk'[t] = disk[t] )
              /\ Oversized(t)
                    => (FreshWrite(t) /\ disk'[t][file_path[t]] = Absent)]_vars

\* C24 (amended): the same table, with the oversized file deleted only when
\* range-resume is enabled and os.remove succeeds; in the other cases the
\* file stays where it is until the fresh write truncates it.
C24_ResumeTableWithRange ==
    [][\A t \in Tasks :
          /\ Decide(t) =>
              /\ NoLocalData(t) => (FreshWrite(t) /\ disk'[t] = disk[t])
              /\ (Resumable(t) /\ use_range[t])
                    => ( /\ pc'[t] = "get"
                         /\ mode'[t] = "ab"
                         /\ downloaded_size'[t] = Existing(t)
                         /\ disk'[t] = disk[t] )
              /\ Oversized(t) => FreshWrite(t)
              /\ (Oversized(t) /\ ~use_range[t]) => disk'[t] = disk[t]
          /\ (Oversized(t) /\ use_range[t] /\ DecideWith(t, FALSE))
                => disk'[t][file_path[t]] = Absent]_vars

\* a transfer about to send a Range request behind a local part that is
\* shorter than the total learned from HEAD
C24_Witness ==
    \E t \in tasks :
        /\ pc[t] = "get"
        /\ gets[t] = 0
        /\ mode[t] = "ab"
        /\ use_range[t]
        /\ total_size[t] # None
        /\ downloaded_size[t] = Existing(t)
        /\ downloaded_size[t] > 0
        /\ downloaded_size[t] < total_size[t]

\* the Content-Length of the GET response being read: the length of its body
ContentLength(t) ==
    body'[t]

\* C25: after the GET response headers are read, total_size is the
\* response's content-length plus the existing offset when the response is
\* a 206 partial response, the response's content-length when it is a 200
\* full response, and unknown when the response carries no content-length
\* and none was learned from HEAD.
C25_TotalAfterGetHeaders ==
    [][\A t \in Tasks :
         /\ GetOkWith(t, TRUE, TRUE)
               => total_size'[t] = ContentLength(t) + downloaded_size[t]
         /\ GetOkWith(t, FALSE, TRUE)
               => total_size'[t] = ContentLength(t)
         /\ (GetOk(t) /\ ~GetOkWith(t, TRUE, TRUE) /\ ~GetOkWith(t, FALSE, TRUE)
                /\ total_size[t] = None)
               => total_size'[t] = None]_vars

\* C26: the 416 recovery path is entered only when the GET that was
\* answered 416 carried a Range header; a 416 answer to a GET sent without
\* Range makes the task fail without deleting the local file or restarting.
C26_RecoveryOnlyAfterRange ==
    [][\A t \in Tasks :
          (mode[t] = "wb" /\ Get416(t))
              => ( /\ status'[t] = "failed"
                   /\ disk'[t] = disk[t]
                   /\ pc'[t] = "returned" )]_vars

\* the transfer routine is entered: by the thread start() launched, or by
\* the recursive call of the restart (line 422)
EntersDownload(t) ==
    pc[t] # "head" /\ pc'[t] = "head"

\* a GET request is issued, whatever its answer
IssuesGet(t) ==
    gets'[t] = gets[t] + 1

\* C27: a task restarts its transfer automatically at most once: the
\* transfer routine is entered once by the launched thread and at most once
\* more by the restart, at most two GET requests are issued, the restart
\* deletes the local file, disables range-resume and resets downloaded_size
\* and total_size, and the restarted GET carries no Range header.
C27_RestartsAtMostOnce ==
    [][\A t \in Tasks :
          /\ retry_count'[t] >= retry_count[t]
          /\ gets'[t] <= 2
          /\ EntersDownload(t) =>
                \/ pc[t] = "set" /\ retry_count[t] = 0 /\ gets[t] = 0
                \/ Restarts(t) /\ retry_count[t] = 0
          /\ Restarts(t) =>
                /\ disk'[t][file_path[t]] = Absent
                /\ ~use_range'[t]
                /\ downloaded_size'[t] = 0
                /\ total_size'[t] = None
          /\ (Restarted(t) /\ IssuesGet(t)) => (mode[t] = "wb" /\ gets[t] = 1)]_vars

\* a restarted task whose second, range-less GET has been answered
C27_Witness ==
    \E t \in tasks :
        /\ Restarted(t)
        /\ gets[t] = 2
        /\ mode[t] = "wb"
        /\ pc[t] = "stream"

\* C29: cancel() on a running task only sets the stop flag: it changes
\* neither the status, downloaded_size nor the file and fires no callback
\* itself; cancel() on a task already completed, failed or canceled changes
\* nothing and fires no callback.
C29_CancelFrame ==
    [][\A t \in Tasks :
          /\ (CancelCall(t) /\ status[t] = "running")
                => ( /\ stop_event'[t]
                     /\ cancelpc'[t] = "idle"
                     /\ UNCHANGED <<status, downloaded_size, disk, file_path,
                                    cbCount, cbLog, error, pc>> )
          /\ (CancelCall(t) /\ status[t] \in Terminal)
                => UNCHANGED vars]_vars

\* a running task in the middle of its transfer on which cancel() has set
\* the stop flag and returned
C29_Witness ==
    \E t \in tasks :
        /\ status[t] = "running"
        /\ stop_event[t]
        /\ cancelpc[t] = "idle"
        /\ pc[t] = "stream"
        /\ downloaded_size[t] > 0
        /\ cbCount[t] = 0

\* the task is not appending to a local file in its current attempt
FreshMode(t) ==
    mode[t] = "wb" \/ ~use_range[t]

\* C30: over a task's whole lifetime its file path changes at most once
\* after construction (HEAD and GET Content-Disposition handling and a 416
\* restart included), and only while the task is in fresh mode.  No header
\* names the constructed path, so a path changes at most once exactly when
\* every change starts from the constructed path.
C30_PathChangesOnce ==
    [][\A t \in Tasks :
          file_path'[t] # file_path[t]
              => ( /\ file_path[t] = OrigName
                   /\ file_path'[t] # OrigName
                   /\ FreshMode(t) )]_vars

\* a start() call, the engine's or a direct one, reads the status
ReadsStatusInStart(t) ==
    \/ StartCheck(t)
    \/ \E c \in Starters : DirectStartCheck(t, c)

\* C28: at most one worker is ever launched for a task: start() on a task
\* whose status is not pending changes nothing (the status and the worker
\* thread are unchanged), however many times and from however many threads
\* start() is called.
C28_SingleWorker ==
    [][\A t \in Tasks :
          /\ Threads(t)' <= 1
          /\ (ReadsStatusInStart(t) /\ status[t] # "pending")
                => (status'[t] = status[t] /\ Threads(t)' = Threads(t))]_vars

\* download() returned a task for the URL
IsTask(x) ==
    x # NoTask

\* C21: download_batch returns the task handles in the order of the input
\* URLs (the returned list is the input order restricted to the URLs for
\* which download() returned a task), whatever the order in which the tasks
\* finish; a URL whose download() call raises is skipped and the remaining
\* URLs are still tried and their tasks submitted.
C21_BatchOrder ==
    /\ batch.result = SelectSeq(batch.made, IsTask)
    /\ batch.phase = "returned" =>
          /\ Len(batch.made) = batch.n
          /\ \A i \in DOMAIN batch.result :
                /\ batch.result[i] \in tasks
                /\ pc[batch.result[i]] \notin {"new", "registered", "unsubmitted"}

\* a batch of three URLs has returned: the second URL was skipped, and the
\* task of the third URL has finished while the task of the first has not
C21_Witness ==
    /\ batch.phase = "returned"
    /\ batch.made = <<1, NoTask, 2>>
    /\ batch.result = <<1, 2>>
    /\ status[2] = "completed"
    /\ status[1] = "running"

\* the tasks of the snapshot of the cancel_all() call in progress
Snapshot ==
    {ca.active[i] : i \in DOMAIN ca.active}

\* a step of the cancel_all() call
CancelAllStep ==
    CancelAllCall \/ CancelAllTask \/ CancelAllReturn

\* what a cancel_all() step leaves alone: the status, the callbacks and the
\* transfer state of every task, and the stop flag of the tasks outside the
\* snapshot (the pending and terminal tasks of the snapshot's moment)
CancelAllFrame ==
    /\ UNCHANGED <<status, cbCount, cbLog, error, pc, total_size, downloaded_size,
                   file_path, disk>>
    /\ \A t \in Tasks : t \notin Snapshot => stop_event'[t] = stop_event[t]

\* C23 (as claimed): cancel_all() sets the stop flag of every task that is
\* running when the registry snapshot is taken and returns without waiting
\* for any worker; it changes the status of no task itself and leaves
\* pending and terminal tasks untouched.
C23_CancelAllFlagsSnapshot ==
    [][/\ CancelAllStep => CancelAllFrame
       /\ CancelAllReturn => \A t \in Snapshot : stop_event[t]]_vars

\* C23 (amended): cancel_all() sets the stop flag of every task that is
\* running when the registry snapshot is taken and still running when its
\* cancel() call is reached (a task of the snapshot that has ended in
\* between is left as it is), and returns without waiting for any worker;
\* it changes the status of no task itself and leaves pending and terminal
\* tasks untouched.
C23_CancelAllFlagsStillRunning ==
    [][/\ CancelAllStep => CancelAllFrame
       /\ CancelAllTask =>
             LET t == ca.active[ca.next]
             IN  stop_event'[t] = (stop_event[t] \/ status[t] = "running")
       /\ CancelAllReturn =>
             \A t \in Snapshot : stop_event[t] \/ status[t] \in Terminal]_vars

\* cancel_all() has returned while a task whose stop flag it set is still
\* in the middle of its transfer
C23_Witness ==
    /\ ca = CancelAllIdle
    /\ \E t \in tasks :
          /\ stop_event[t]
          /\ status[t] = "running"
          /\ pc[t] = "stream"
          /\ body[t] > 0

\* C22: shutdown(wait=True) requests cancellation of every active task
\* and then shuts the pool down, blocking until the workers exit: when it
\* returns, no task known to the engine is in status running and none
\* starts running afterwards.  The pool takes no work after shutdown(), so
\* every state from the return on is one where the call can return.
C22_ShutdownLeavesNoneRunning ==
    ShutdownCanReturn => \A t \in tasks : status[t] # "running"

\* the output file of the task has been opened (line 324), or the worker
\* has left the transfer routine for good
PastOpen(t) ==
    pc[t] \in {"stream", "closed", "returned"}

\* C31: a Content-Disposition file name on the GET response replaces the
\* task's file name only when the attempt is a fresh write; in append mode
\* the path is left unchanged, and the path never changes once the output
\* file has been opened or any byte written, so that all bytes of a task
\* go to a single file.
C31_GetNameOnlyWhenFresh ==
    [][\A t \in Tasks :
          /\ (GetOk(t) /\ mode[t] = "ab") => file_path'[t] = file_path[t]
          /\ (GetOk(t) /\ file_path'[t] # file_path[t]) => (mode[t] = "wb" /\ cd[t])
          /\ PastOpen(t) => file_path'[t] = file_path[t]
          /\ pc[t] = "stream" =>
                \A n \in Names : n # file_path[t] => disk'[t][n] = disk[t][n]]_vars

\* an appending transfer that is streaming into the file of the constructed
\* path although the GET response carried a Content-Disposition name
C31_Witness ==
    \E t \in tasks :
        /\ pc[t] = "stream"
        /\ mode[t] = "ab"
        /\ cd[t]
        /\ file_path[t] = OrigName
        /\ downloaded_size[t] > 0
        /\ disk[t][OrigName] = downloaded_size[t]

\* C32: a failing HEAD request (network error or error status) never makes
\* the task fail and never stops the transfer: the resume decision and the
\* GET are still performed, with the total size and the file name taken
\* from the GET response.
C32_HeadFailureSwallowed ==
    [][\A t \in Tasks :
          /\ HeadRequestWith(t, FALSE, FALSE)
                => ( /\ pc'[t] = "decide"
                     /\ UNCHANGED <<status, error, cbCount, total_size, file_path>> )
          /\ (Decide(t) /\ total_size[t] = None)
                => (pc'[t] = "get" /\ status'[t] = status[t])
          /\ (GetOkWith(t, TRUE, TRUE) \/ GetOkWith(t, FALSE, TRUE))
                => total_size'[t] # None
          /\ (GetOk(t) /\ cd[t] /\ mode[t] = "wb")
                => file_path'[t] \in GetNames]_vars

\* the HEAD request of a task failed (the server names the file, yet the
\* path is still the constructed one and no size is known), and the task
\* has made its resume decision and is about to send the GET
C32_Witness ==
    \E t \in tasks :
        /\ pc[t] = "get"
        /\ gets[t] = 0
        /\ status[t] = "running"
        /\ error[t] = NoError
        /\ cd[t]
        /\ file_path[t] = OrigName
        /\ total_size[t] = None

\* the step invokes every progress callback of the task with
\* (total_size, total_size), and only then its completion callbacks
FinalProgressThenCompletion(t) ==
    LET c == ProgressCallers(t)
    IN  /\ Len(cbLog'[t]) >= Len(c)
        /\ \A i \in 1..Len(c) : cbLog'[t][i][1] = "final" /\ cbLog'[t][i][2] = c[i]
        /\ \A i \in DOMAIN cbLog'[t] : i > Len(c) => cbLog'[t][i][1] = "completion"

\* the step invokes a progress callback of the streaming loop
InvokesProgress(t) ==
    /\ cbLog'[t] # cbLog[t]
    /\ \E i \in DOMAIN cbLog'[t] : cbLog'[t][i][1] = "progress"

\* C33: when the response body is exhausted without cancellation and
\* total_size is known, the last progress callback of the task is invoked
\* with (total_size, total_size), before the status becomes completed and
\* before any completion callback; no progress callback is invoked after
\* the completion callbacks.  The end of the body is one step here, whose
\* log gives the order of the invocations.
C33_FinalProgressBeforeCompletion ==
    [][\A t \in Tasks :
          /\ ( /\ Finish(t)
               /\ status[t] = "running"
               /\ ~stop_event[t]
               /\ total_size[t] # None
               /\ ProgressCallers(t) # <<>> )
                => (FinalProgressThenCompletion(t) /\ status'[t] = "completed")
          /\ InvokesProgress(t) => cbCount[t] = 0]_vars

\* C34: the task's eta is null whenever speed is zero, total_size is
\* unknown, or nothing remains to download; otherwise it equals
\* (total_size - downloaded_size) divided by speed, truncated to an integer
\* number of seconds.
C34_Eta ==
    (probe.kind = "eta" /\ probe.result # <<>>) =>
        LET remaining == probe.total - probe.downloaded
            r == probe.result[1]
        IN  IF probe.speed = 0 \/ probe.total = None \/ remaining <= 0
              THEN r = None
              ELSE /\ r # None
                   /\ r * probe.speed <= remaining
                   /\ (r + 1) * probe.speed > remaining

\* eta was read with a remaining size that the speed does not divide
C34_Witness ==
    /\ probe.kind = "eta"
    /\ probe.speed = 2
    /\ probe.total = 5
    /\ probe.downloaded = 2
    /\ probe.result = <<1>>

\* C35: in every reachable state the task's progress value lies between
\* 0.0 and 1.0: it is downloaded_size / total_size when total_size is known
\* and positive, and 0.0 for a task whose total is unknown or zero and on
\* which update_progress was never called.
C35_ProgressInUnitInterval ==
    \A t \in tasks :
        LET p == progress(total_size[t], downloaded_size[t], NoProgress)
        IN  /\ 0 <= p[1]
            /\ p[1] <= p[2]
            /\ total_size[t] \in {None, 0} => p = NoProgress

\* the name with the default extension when it has none
WithExtension(name) ==
    IF Contains(name, ".") THEN name ELSE name \o DefaultExtension

\* the name the priority of C36 chooses for a URL that urlparse accepts
ChosenName(url) ==
    LET from_path == basename(unquote(url.path))
        filenames == parse_qs(url.query, "filename")
        ids == parse_qs(url.query, "id")
    IN  IF Contains(from_path, ".") THEN from_path
        ELSE IF filenames # <<>> THEN sanitize(filenames[1])
        ELSE IF ids # <<>> /\ isdigit(ids[1]) THEN DownloadPrefix \o ids[1]
        ELSE DownloadPrefix \o url.digest

\* C36: for every URL, get_filename_from_url returns a non-empty name that
\* contains a "." and none of the illegal characters, chosen with this
\* priority: the URL path basename when it has an extension, else the
\* filename query parameter, else download_<id> for a numeric id query
\* parameter, else a name derived from a hash of the URL; the name is a
\* function of the URL alone.
C36_FilenameFromUrl ==
    (probe.kind = "filename" /\ probe.result # <<>>) =>
        LET name == probe.result[1]
            url == probe.url
        IN  /\ name # <<>>
            /\ Contains(name, ".")
            /\ \A i \in 1..Len(name) : name[i] \notin Illegal
            /\ name = get_filename_from_url(url)
            /\ url.parses =>
                  \/ name = sanitize(WithExtension(ChosenName(url)))
                  \/ /\ sanitize(WithExtension(ChosenName(url))) = <<>>
                     /\ name = DownloadPrefix \o url.digest \o DefaultExtension
            /\ ~url.parses => name = DownloadPrefix \o url.digest \o DefaultExtension

\* a name was taken from the filename parameter of a URL whose path has no
\* extension and whose query also has a numeric id, and an illegal
\* character of it was replaced
C36_Witness ==
    /\ probe.kind = "filename"
    /\ probe.url.parses
    /\ probe.url.path = <<"/", "a">>
    /\ probe.url.query = <<[key |-> "id", value |-> <<"1">>],
                           [key |-> "filename", value |-> <<":">>]>>
    /\ probe.result = <<(<<"_">> \o DefaultExtension)>>

\* C37: in CivitaiAPI._rate_limited_request a 429 response doubles
\* min_request_interval and the request is retried; when the server
\* eventually answers with a status other than 429 the call returns, and
\* the request lock is free again afterwards so that later requests of
\* this or any other thread can proceed.
C37_RetryAfter429 ==
    /\ \A th \in ApiThreads :
          (api.apc[th] = "request") ~> (api.apc[th] \in {"returned", "raised"})
    /\ []((\A th \in ApiThreads : api.apc[th] \in {"idle", "returned", "raised"})
            => api.lock = NoThread)

\* C38: whenever a task is in status completed and its total_size is
\* known, downloaded_size = total_size and the file on disk has total_size
\* bytes, whatever the server answered.
C38_CompletedMeansWholeFile ==
    \A t \in tasks :
        (status[t] = "completed" /\ total_size[t] # None) =>
            /\ downloaded_size[t] = total_size[t]
            /\ FileLen(t) = total_size[t]

\* the task can be reached by other threads through get_task and
\* get_all_tasks
InRegistry(t) ==
    \E id \in DOMAIN registry : registry[id] = t

\* C39: the combined completion callback of a task created by download()
\* is attached before any other thread can reach the task through the
\* registry, so a cancel() issued by another thread as soon as the task
\* is in the registry still invokes the caller's and the global completion
\* callbacks.
C39_HookedBeforeReachable ==
    [][\A t \in Tasks :
          /\ InRegistry(t)' => hooked'[t]
          /\ CancelPending(t) =>
                Called(cbLog'[t]) =
                    Owed("completion", Callers(user_cb[t].completion, globals.completion))]_vars

\* task t is inside `with open(self.file_path, mode) as f` (lines 324-358)
HasFileOpen(t) ==
    pc[t] = "stream"

\* C40: no two tasks of one engine ever have the same destination file
\* open for writing at the same time, also when download() or
\* download_batch() is given two URLs that resolve to the same file path.
C40_OneWriterPerFile ==
    \A t1, t2 \in tasks :
        (t1 # t2 /\ file_path[t1] = file_path[t2]) =>
            ~(HasFileOpen(t1) /\ HasFileOpen(t2))

====
